---- MODULE Spec2Model ----
(***************************************************************************)
(* Audit & reconciliation engine of the Tally MCP server.                  *)
(*                                                                         *)
(*   - BankReconciliationTools.autoReconcile   (bank book vs statement)    *)
(*   - GSTTools.reconcileWithGSTR2A            (purchases vs GSTR-2A)      *)
(*   - FinancialTools.getDebtorsAging / getCreditorsAging                  *)
(*   - ConfigAuditTools.runFullAudit, applyFix, applyMultipleFixes         *)
(*   - ConfigAuditTools.previewFix, calculateCategoryScore, isSimilarName  *)
(*   - the server's CallTool handler and its connection guard              *)
(*                                                                         *)
(* Amounts are integers in thousandths of a rupee (1.00 rupee = 1000), so  *)
(* that rounding to two decimals (toFixed(2)) is a real conversion.  Dates *)
(* are <<year, month, day>> triples; new Date(...).getTime() is modelled   *)
(* by the day number DateToDays.  Object identity of a record (indexOf,    *)
(* Map values) is modelled by its idx field, the position in its input.    *)
(***************************************************************************)
EXTENDS Integers, Sequences, FiniteSets, TLC

VARIABLES
    \* ---- BankReconciliationTools.autoReconcile ----
    vouchers,          \* bank vouchers held by the external system
    bankStatement,     \* the bankStatement argument
    reconciliation,    \* TallyResponse of autoReconcile, or None
    \* ---- BankReconciliationTools.generateBRS / getUnclearedAging ----
    brsAsOnDate,       \* the asOnDate argument
    brs,               \* TallyResponse of generateBRS, or None
    unclearedAging,    \* TallyResponse of getUnclearedAging, or None
    \* ---- GSTTools.reconcileWithGSTR2A ----
    purchaseVouchers,  \* parsed purchase register (tallyTransactions)
    gstr2aData,        \* the gstr2aData argument
    gstReconciliation, \* TallyResponse of reconcileWithGSTR2A, or None
    \* ---- FinancialTools aging ----
    agingLedgers,      \* ledgers (with bill allocations) of the external system
    asOnDate,          \* the asOnDate argument
    agingResult,       \* TallyResponse of get{Debtors,Creditors}Aging, or None
    \* ---- ConfigAuditTools.runFullAudit ----
    tally,             \* masters of the external system: ledgers, companies, stock items
    companyName,       \* connection.getCompanyName(), "" when no company is selected
    avail,             \* per category: does its data fetch succeed
    phase,             \* position of runFullAudit: "idle", "awaiting" (Promise.all), "returned"
    promises,          \* per category: the issues its audit promise resolves with
    pending,           \* categories whose promise has not resolved yet (Promise.all)
    slots,             \* resolved category results, by category
    auditDate,         \* new Date() at the time the report is built
    report,            \* TallyResponse of the latest runFullAudit, or None
    previousReport,    \* TallyResponse of the run before it, or None
    runs,              \* number of runFullAudit calls started
    \* ---- ConfigAuditTools.applyFix / applyMultipleFixes ----
    fixCall,           \* the latest applyFix / applyMultipleFixes call and its position
    fixResult,         \* TallyResponse of that call, or None
    mutations,         \* the mutation requests that call sent, with their responses
    fixCalls,          \* number of applyFix / applyMultipleFixes calls made
    \* ---- ConfigAuditTools.calculateCategoryScore ----
    scoreIssues,       \* the issues argument
    categoryScore,     \* the CategoryAudit it returns, or None
    \* ---- ConfigAuditTools.isSimilarName ----
    nameA,             \* first argument
    nameB,             \* second argument
    similarResult,     \* what isSimilarName returns for the two names, or NotCompared
    \* ---- the external system while an audit is in progress ----
    ledgerStates,      \* the ledgers of the external system since the audit started, oldest first
    \* ---- the server's CallTool handler ----
    tallyConnection,   \* module variable tallyConnection: Undefined or the connection
    tdsTools,          \* module variable tdsTools: Undefined or the TDSTools object
    callLog            \* the tool calls handled so far, each with its outcome

reconVars == <<vouchers, bankStatement, reconciliation, brsAsOnDate, brs, unclearedAging>>
gstVars == <<purchaseVouchers, gstr2aData, gstReconciliation>>
agingVars == <<agingLedgers, asOnDate, agingResult>>
auditVars == <<tally, companyName, avail, phase, promises, pending, slots, auditDate, report, previousReport, runs>>
fixVars == <<fixCall, fixResult, mutations, fixCalls>>
scoreVars == <<scoreIssues, categoryScore>>
\* The state of the operations modelled after applyFix.
similarVars == <<nameA, nameB, similarResult>>
snapshotVars == <<ledgerStates>>
serverVars == <<tallyConnection, tdsTools, callLog>>
restVars == <<scoreVars, similarVars, snapshotVars, serverVars>>
vars == <<reconVars, gstVars, agingVars, auditVars, fixVars, restVars>>

None == [success |-> FALSE, error |-> "not called"]

(***************************************************************************)
(* Generic helpers                                                         *)
(***************************************************************************)
Abs(x) == IF x < 0 THEN -x ELSE x

Max(a, b) == IF a >= b THEN a ELSE b

Min(a, b) == IF a <= b THEN a ELSE b

Range(s) == {s[i] : i \in 1..Len(s)}

\* All sequences over S of length at most n.
SeqUpTo(S, n) == UNION {[1..k -> S] : k \in 0..n}

RECURSIVE SumSeq(_)
SumSeq(s) == IF s = <<>> THEN 0 ELSE Head(s) + SumSeq(Tail(s))

\* Array.prototype.filter
Filter(s, P(_)) == SelectSeq(s, P)

\* Attach the position of each element as its identity.
WithIdx(s) == [i \in 1..Len(s) |-> [s[i] EXCEPT !.idx = i]]

\* Array.prototype.splice(i, 1)
RemoveAt(s, i) == SubSeq(s, 1, i - 1) \o SubSeq(s, i + 1, Len(s))

(***************************************************************************)
(* Dates: new Date('YYYY-MM-DD').getTime() / (1000*60*60*24)               *)
(***************************************************************************)
DateToDays(date) ==
    LET y0 == date[1]
        m == date[2]
        d == date[3]
        y == IF m <= 2 THEN y0 - 1 ELSE y0
        era == y \div 400
        yoe == y - era * 400
        mp == IF m > 2 THEN m - 3 ELSE m + 9
        doy == (153 * mp + 2) \div 5 + d - 1
        doe == yoe * 365 + yoe \div 4 - yoe \div 100 + doy
    IN era * 146097 + doe - 719468

\* 'YYYY-MM-DD'.localeCompare: a <= b
DateLeq(a, b) ==
    \/ a[1] < b[1]
    \/ a[1] = b[1] /\ a[2] < b[2]
    \/ a[1] = b[1] /\ a[2] = b[2] /\ a[3] <= b[3]

(***************************************************************************)
(* BankReconciliationTools.getBankBook                                     *)
(***************************************************************************)
\* vouchers.sort((a, b) => dateA.localeCompare(dateB)): stable, ascending.
RECURSIVE SortByDate(_)
SortByDate(vs) ==
    IF vs = <<>> THEN <<>>
    ELSE LET n == Len(vs)
             sorted == SortByDate(SubSeq(vs, 1, n - 1))
             x == vs[n]
             k == Cardinality({i \in 1..Len(sorted) : DateLeq(sorted[i].DATE, x.DATE)})
         IN SubSeq(sorted, 1, k) \o <<x>> \o SubSeq(sorted, k + 1, Len(sorted))

RECURSIVE BookRows(_, _, _)
BookRows(vs, runningBalance, n) ==
    IF vs = <<>> THEN <<>>
    ELSE LET v == Head(vs)
             amount == v.AMOUNT
             isDebit == amount > 0
             bal == runningBalance + amount
             txn == [idx |-> n,
                     date |-> v.DATE,
                     chequeNumber |-> v.INSTRUMENTNUMBER,
                     debit |-> IF isDebit THEN amount ELSE 0,
                     credit |-> IF isDebit THEN 0 ELSE Abs(amount),
                     balance |-> bal,
                     isReconciled |-> v.BANKDATE # <<>>,
                     bankDate |-> v.BANKDATE]
         IN <<txn>> \o BookRows(Tail(vs), bal, n + 1)

GetBankBook(vs) == BookRows(SortByDate(vs), 0, 1)

(***************************************************************************)
(* BankReconciliationTools.autoReconcile                                   *)
(***************************************************************************)
\* Number.prototype.toFixed(2) of a non-negative amount: hundredths, rounded.
ToFixed2(amount) == (amount + 5) \div 10

\* const amount = x.debit || x.credit
DebitOrCredit(x) == IF x.debit # 0 THEN x.debit ELSE x.credit

\* Faulty variant: the key carries the date as well.
createMatchKey_WithDate(txn) ==
    <<txn.chequeNumber, ToFixed2(DebitOrCredit(txn)), txn.date>>

\* `${txn.chequeNumber || ''}_${amount.toFixed(2)}`
createMatchKey(txn) == <<txn.chequeNumber, ToFixed2(DebitOrCredit(txn))>>

\* const bookMap = new Map<string, BankTransaction[]>()
BuildBookMap(bookTransactions) ==
    [k \in {createMatchKey(t) : t \in Range(bookTransactions)} |->
        SelectSeq(bookTransactions, LAMBDA t : createMatchKey(t) = k)]

dateTolerance == 7

\* Faulty variant: an amount difference of exactly 1 is accepted.
AmountWithinTolerance_Inclusive(amount, bookAmount) == Abs(amount - bookAmount) <= 1000

\* Math.abs(amount - bookAmount) < 1
AmountWithinTolerance(amount, bookAmount) == Abs(amount - bookAmount) < 1000

\* Math.abs((entryDate.getTime() - bookDate.getTime()) / (1000*60*60*24))
DaysDiff(entryDate, bookDate) == Abs(DateToDays(entryDate) - DateToDays(bookDate))

\* bookTransactions.indexOf(bookTxn): 0 when absent.
IndexOf(s, txn) ==
    LET hits == {i \in 1..Len(s) : s[i].idx = txn.idx}
    IN IF hits = {} THEN 0 ELSE CHOOSE i \in hits : \A j \in hits : i <= j

\* Faulty variant: of the remaining book transactions within both tolerances,
\* the one closest in date (the first of these).
FirstFuzzy_Closest(bookTransactions, entry) ==
    LET amount == DebitOrCredit(entry)
        hits == {i \in 1..Len(bookTransactions) :
                    /\ AmountWithinTolerance(amount, DebitOrCredit(bookTransactions[i]))
                    /\ DaysDiff(entry.date, bookTransactions[i].date) <= dateTolerance}
        best == {i \in hits : \A j \in hits :
                    DaysDiff(entry.date, bookTransactions[i].date)
                        <= DaysDiff(entry.date, bookTransactions[j].date)}
    IN IF hits = {} THEN 0 ELSE CHOOSE i \in best : \A j \in best : i <= j

\* The first remaining book transaction, in order, within both tolerances.
FirstFuzzy(bookTransactions, entry) ==
    LET amount == DebitOrCredit(entry)
        hits == {i \in 1..Len(bookTransactions) :
                    /\ AmountWithinTolerance(amount, DebitOrCredit(bookTransactions[i]))
                    /\ DaysDiff(entry.date, bookTransactions[i].date) <= dateTolerance}
    IN IF hits = {} THEN 0 ELSE CHOOSE i \in hits : \A j \in hits : i <= j

\* Faulty variant: a difference of one day still counts as the same date.
FuzzyMatchType_WithinADay(daysDiff) ==
    IF daysDiff <= 1 THEN "Amount+Date" ELSE "Amount (Date Mismatch)"

\* daysDiff === 0 ? 'Amount+Date' : 'Amount (Date Mismatch)'
FuzzyMatchType(daysDiff) ==
    IF daysDiff = 0 THEN "Amount+Date" ELSE "Amount (Date Mismatch)"

\* Body of `for (const entry of statementEntries)`.
ReconcileEntry(st, entry) ==
    LET amount == DebitOrCredit(entry)
        key == <<entry.chequeNumber, ToFixed2(amount)>>
        candidates == IF key \in DOMAIN st.bookMap THEN st.bookMap[key] ELSE <<>>
        exact == entry.chequeNumber # "" /\ Len(candidates) > 0
        i == FirstFuzzy(st.bookTransactions, entry)
    IN IF exact
       THEN LET bookTxn == Head(candidates)
                at == IndexOf(st.bookTransactions, bookTxn)
            IN [st EXCEPT
                  !.bookMap = [@ EXCEPT ![key] = Tail(candidates)],
                  !.matched = Append(@, [bookTransaction |-> bookTxn,
                                         statementEntry |-> entry,
                                         matchType |-> "Exact"]),
                  !.totalMatched = @ + 1,
                  !.bookTransactions = IF at > 0 THEN RemoveAt(@, at) ELSE @]
       ELSE IF i > 0
       THEN LET bookTxn == st.bookTransactions[i]
                daysDiff == DaysDiff(entry.date, bookTxn.date)
            IN [st EXCEPT
                  !.matched = Append(@, [bookTransaction |-> bookTxn,
                                         statementEntry |-> entry,
                                         matchType |-> FuzzyMatchType(daysDiff),
                                         daysDifference |-> daysDiff]),
                  !.totalMatched = @ + 1,
                  !.bookTransactions = RemoveAt(@, i)]
       ELSE [st EXCEPT
               !.unmatchedInStatement = Append(@, entry),
               !.totalUnmatchedStatement = @ + 1]

RECURSIVE ReconcileLoop(_, _)
ReconcileLoop(st, statementEntries) ==
    IF statementEntries = <<>> THEN st
    ELSE ReconcileLoop(ReconcileEntry(st, Head(statementEntries)), Tail(statementEntries))

\* autoReconcile once getBankBook has succeeded with bookData.
AutoReconcile(bookData, statement) ==
    LET st0 == [bookTransactions |-> bookData,
                bookMap |-> BuildBookMap(bookData),
                matched |-> <<>>,
                unmatchedInStatement |-> <<>>,
                totalMatched |-> 0,
                totalUnmatchedStatement |-> 0]
        st == ReconcileLoop(st0, statement)
        totalUnmatchedBooks == Len(st.bookTransactions)
        totalEntries == st.totalMatched + totalUnmatchedBooks + st.totalUnmatchedStatement
    IN [success |-> TRUE,
        data |-> [matched |-> st.matched,
                  unmatchedInBooks |-> st.bookTransactions,
                  unmatchedInStatement |-> st.unmatchedInStatement,
                  summary |-> [totalMatched |-> st.totalMatched,
                               totalUnmatchedBooks |-> totalUnmatchedBooks,
                               totalUnmatchedStatement |-> st.totalUnmatchedStatement,
                               \* matchPercentage as the exact fraction num/den
                               matchPercentage |->
                                   IF totalEntries > 0
                                   THEN <<st.totalMatched * 100, totalEntries>>
                                   ELSE <<0, 1>>]]]

(***************************************************************************)
(* BankReconciliationTools.generateBRS                                     *)
(***************************************************************************)
\* Faulty variant: a bank date after the reconciliation date counts as cleared.
Uncleared_IgnoringBankDate(txn, reconDate) == ~txn.isReconciled

\* !txn.isReconciled || (txn.bankDate && new Date(txn.bankDate) > reconDate)
Uncleared(txn, reconDate) ==
    \/ ~txn.isReconciled
    \/ txn.bankDate # <<>> /\ DateToDays(txn.bankDate) > DateToDays(reconDate)

\* generateBRS once getBankBook has succeeded with transactions.
GenerateBRS(transactions, asOn) ==
    LET unClearedCheques ==
            SelectSeq(transactions, LAMBDA t : Uncleared(t, asOn) /\ t.credit > 0)
        unClearedDeposits ==
            SelectSeq(transactions,
                      LAMBDA t : Uncleared(t, asOn) /\ ~(t.credit > 0) /\ t.debit > 0)
        balanceAsPerBooks ==
            SumSeq([i \in 1..Len(transactions) |-> transactions[i].debit - transactions[i].credit])
        totalUnClearedCheques ==
            SumSeq([i \in 1..Len(unClearedCheques) |-> unClearedCheques[i].credit])
        totalUnClearedDeposits ==
            SumSeq([i \in 1..Len(unClearedDeposits) |-> unClearedDeposits[i].debit])
    IN [success |-> TRUE,
        data |-> [asOnDate |-> asOn,
                  balanceAsPerBooks |-> balanceAsPerBooks,
                  balanceAsPerBank |-> balanceAsPerBooks + totalUnClearedCheques
                                          - totalUnClearedDeposits,
                  unClearedCheques |-> unClearedCheques,
                  unClearedDeposits |-> unClearedDeposits,
                  reconciliationDifference |-> 0]]

(***************************************************************************)
(* BankReconciliationTools.getUnclearedAging                               *)
(***************************************************************************)
\* Math.floor((reconDate.getTime() - txnDate.getTime()) / (1000*60*60*24))
UnclearedDays(txn, reconDate) == DateToDays(reconDate) - DateToDays(txn.date)

\* The if / else-if chain over agingDays.
UnclearedBucketOf(agingDays) ==
    IF agingDays <= 7 THEN "within7Days"
    ELSE IF agingDays <= 30 THEN "within30Days"
    ELSE IF agingDays <= 90 THEN "within90Days"
    ELSE "above90Days"

\* Faulty variant: a cheque is stale after 180 days.
IsStale_After180(agingDays) == agingDays > 180

\* return agingDays > 90
IsStale(agingDays) == agingDays > 90

\* One of aging.cheques / aging.deposits; amount is credit or debit.
AgeUncleared(items, reconDate, amount) ==
    LET In(b) == SelectSeq(items, LAMBDA t : UnclearedBucketOf(UnclearedDays(t, reconDate)) = b)
        Total(b) == SumSeq([i \in 1..Len(In(b)) |-> In(b)[i][amount]])
    IN [within7Days |-> In("within7Days"),
        within30Days |-> In("within30Days"),
        within90Days |-> In("within90Days"),
        above90Days |-> In("above90Days"),
        totals |-> [within7 |-> Total("within7Days"),
                    within30 |-> Total("within30Days"),
                    within90 |-> Total("within90Days"),
                    above90 |-> Total("above90Days")]]

\* getUnclearedAging once generateBRS has succeeded with brsData.
GetUnclearedAging(brsData, asOn) ==
    LET aging == [cheques |-> AgeUncleared(brsData.unClearedCheques, asOn, "credit"),
                  deposits |-> AgeUncleared(brsData.unClearedDeposits, asOn, "debit")]
        staleCheques == SelectSeq(aging.cheques.above90Days,
                                  LAMBDA c : IsStale(UnclearedDays(c, asOn)))
    IN [success |-> TRUE,
        data |-> [aging |-> aging,
                  staleCheques |-> staleCheques,
                  staleChequesTotal |->
                      SumSeq([i \in 1..Len(staleCheques) |-> staleCheques[i].credit]),
                  remarks |-> IF Len(staleCheques) > 0
                              THEN <<Len(staleCheques),
                                     " stale cheques found. Consider writing back to income.">>
                              ELSE <<"No stale cheques found.">>]]

(***************************************************************************)
(* Inputs of the bank reconciliation                                       *)
(***************************************************************************)
MaxBook == 2

MaxStatement == 2

BookDates == {<<2024, 2, 1>>, <<2024, 2, 8>>}

StatementDates == {<<2024, 2, 8>>, <<2024, 2, 9>>}

ChequeNumbers == {"", "CHQ100"}

\* 1000.00 received, 1000.50 paid
BookAmounts == {1000000, -1000500}

BankVouchers ==
    {[DATE |-> d, AMOUNT |-> a, INSTRUMENTNUMBER |-> c, BANKDATE |-> <<>>] :
        d \in BookDates, a \in BookAmounts, c \in ChequeNumbers}

\* <<debit, credit>>: 1000.50 and 1000.504 withdrawn, 1001.00 deposited
StatementAmounts == {<<1000500, 0>>, <<1000504, 0>>, <<0, 1001000>>}

StatementEntries ==
    {[idx |-> 0, date |-> d, chequeNumber |-> c, debit |-> m[1], credit |-> m[2]] :
        d \in StatementDates, c \in ChequeNumbers, m \in StatementAmounts}

\* A cheque of 5000.00 issued on 2024-01-10 and paid by the bank on 2024-01-12.
ChequeBook ==
    <<[DATE |-> <<2024, 1, 10>>, AMOUNT |-> -5000000, INSTRUMENTNUMBER |-> "CHQ100",
       BANKDATE |-> <<>>]>>

ChequeStatement ==
    <<[idx |-> 0, date |-> <<2024, 1, 12>>, chequeNumber |-> "CHQ100",
       debit |-> 5000000, credit |-> 0]>>

IdleBrs ==
    /\ brsAsOnDate = <<2024, 3, 31>>
    /\ brs = None
    /\ unclearedAging = None

IdleRecon ==
    /\ vouchers = <<>>
    /\ bankStatement = <<>>
    /\ reconciliation = None
    /\ IdleBrs

IdleGst ==
    /\ purchaseVouchers = <<>>
    /\ gstr2aData = <<>>
    /\ gstReconciliation = None

IdleAging ==
    /\ agingLedgers = <<>>
    /\ asOnDate = <<2024, 3, 31>>
    /\ agingResult = None

Categories ==
    {"companyInfo", "gst", "tds", "ledgerClassification", "partyMaster", "stockItems"}

NoSlots == [c \in Categories |-> <<>>]

IdleAudit ==
    /\ tally = [ledgers |-> <<>>, companies |-> <<>>, stockItems |-> <<>>]
    /\ companyName = ""
    /\ avail = [c \in Categories |-> TRUE]
    /\ phase = "idle"
    /\ promises = NoSlots
    /\ pending = {}
    /\ slots = NoSlots
    /\ auditDate = ""
    /\ report = None
    /\ previousReport = None
    /\ runs = 0

NoMutation == [sent |-> FALSE]

NoCall == [op |-> "none", issueIds |-> <<>>, i |-> 0, pc |-> "idle",
           results |-> <<>>, errors |-> <<>>, attempted |-> <<>>, before |-> <<>>]

IdleFix ==
    /\ fixCall = NoCall
    /\ fixResult = None
    /\ mutations = <<>>
    /\ fixCalls = 0

IdleScore ==
    /\ scoreIssues = <<>>
    /\ categoryScore = None

NotCompared == [called |-> FALSE]

IdleSimilar ==
    /\ nameA = ""
    /\ nameB = ""
    /\ similarResult = NotCompared

IdleSnapshot ==
    /\ ledgerStates = <<>>

\* A module variable declared with `let` and not yet assigned.
Undefined == [defined |-> FALSE]

IdleServer ==
    /\ tallyConnection = Undefined
    /\ tdsTools = Undefined
    /\ callLog = <<>>

IdleRest ==
    /\ IdleScore
    /\ IdleSimilar
    /\ IdleSnapshot
    /\ IdleServer

InitRecon ==
    /\ \/ /\ vouchers \in SeqUpTo(BankVouchers, MaxBook)
          /\ \E s \in SeqUpTo(StatementEntries, MaxStatement) : bankStatement = WithIdx(s)
       \/ /\ vouchers = ChequeBook
          /\ bankStatement = WithIdx(ChequeStatement)
    /\ reconciliation = None
    /\ IdleBrs
    /\ IdleGst
    /\ IdleAging
    /\ IdleAudit
    /\ IdleFix
    /\ IdleRest

\* autoReconcile(bankLedgerName, fromDate, toDate, bankStatement)
AutoReconcileCall ==
    /\ reconciliation = None
    /\ \E bookOk \in BOOLEAN :
          reconciliation' =
              IF bookOk
              THEN AutoReconcile(GetBankBook(vouchers), bankStatement)
              ELSE [success |-> FALSE, error |-> "Tally request failed"]
    /\ UNCHANGED <<vouchers, bankStatement, brsAsOnDate, brs, unclearedAging,
                   gstVars, agingVars, auditVars, fixVars, restVars>>

NextRecon == AutoReconcileCall

SpecRecon == InitRecon /\ [][NextRecon]_vars

\* ---- shorthands over the result of autoReconcile ----
ReconDone == reconciliation # None /\ reconciliation.success

BookInput == GetBankBook(vouchers)

\* Number of matched pairs whose book side is book transaction b.
PairsOfBook(b) ==
    Cardinality({i \in 1..Len(reconciliation.data.matched) :
                    reconciliation.data.matched[i].bookTransaction.idx = b})

PairsOfEntry(e) ==
    Cardinality({i \in 1..Len(reconciliation.data.matched) :
                    reconciliation.data.matched[i].statementEntry.idx = e})

TimesUnmatchedInBooks(b) ==
    Cardinality({i \in 1..Len(reconciliation.data.unmatchedInBooks) :
                    reconciliation.data.unmatchedInBooks[i].idx = b})

TimesUnmatchedInStatement(e) ==
    Cardinality({i \in 1..Len(reconciliation.data.unmatchedInStatement) :
                    reconciliation.data.unmatchedInStatement[i].idx = e})

\* C1: every book transaction ends in exactly one place (one matched pair or
\* unmatchedInBooks), every statement entry ends in exactly one place (one
\* matched pair or unmatchedInStatement), and the summary counts add up to the
\* sizes of the two inputs.
C1_EveryRecordInExactlyOnePlace ==
    ReconDone =>
        /\ \A b \in 1..Len(BookInput) : PairsOfBook(b) + TimesUnmatchedInBooks(b) = 1
        /\ \A e \in 1..Len(bankStatement) :
              PairsOfEntry(e) + TimesUnmatchedInStatement(e) = 1
        /\ reconciliation.data.summary.totalMatched
             + reconciliation.data.summary.totalUnmatchedBooks = Len(BookInput)
        /\ reconciliation.data.summary.totalMatched
             + reconciliation.data.summary.totalUnmatchedStatement = Len(bankStatement)

\* The key of b occurs once in the book and the key of e once in the statement.
KeyOccursOnce(b, e) ==
    /\ \A b2 \in 1..Len(BookInput) :
          createMatchKey(BookInput[b2]) = createMatchKey(BookInput[b]) => b2 = b
    /\ \A e2 \in 1..Len(bankStatement) :
          createMatchKey(bankStatement[e2]) = createMatchKey(bankStatement[e]) => e2 = e

SameChequeAndAmount(b, e) ==
    /\ BookInput[b].chequeNumber # ""
    /\ BookInput[b].chequeNumber = bankStatement[e].chequeNumber
    /\ DebitOrCredit(BookInput[b]) = DebitOrCredit(bankStatement[e])

\* C2: a book transaction and a statement entry with the same non-empty cheque
\* number and the same amount (the key occurring once on each side) end up
\* together in one 'Exact' pair, and neither is in any pair made by the fuzzy step.
C2_ExactKeyNeverFuzzy ==
    ReconDone =>
        \A b \in 1..Len(BookInput), e \in 1..Len(bankStatement) :
            (SameChequeAndAmount(b, e) /\ KeyOccursOnce(b, e)) =>
                /\ \E p \in Range(reconciliation.data.matched) :
                      /\ p.bookTransaction.idx = b
                      /\ p.statementEntry.idx = e
                      /\ p.matchType = "Exact"
                /\ \A p \in Range(reconciliation.data.matched) :
                      (p.bookTransaction.idx = b \/ p.statementEntry.idx = e)
                          => p.matchType = "Exact"

\* Amount difference (thousandths) and date difference (days) of a
\* statement entry and a book transaction.
AmountGap(entry, bookTxn) ==
    LET d == DebitOrCredit(entry) - DebitOrCredit(bookTxn)
    IN IF d < 0 THEN 0 - d ELSE d

DayGap(entry, bookTxn) ==
    LET d == DateToDays(entry.date) - DateToDays(bookTxn.date)
    IN IF d < 0 THEN 0 - d ELSE d

FuzzyPairs == SelectSeq(reconciliation.data.matched, LAMBDA p : p.matchType # "Exact")

\* C17: a pair made by the fuzzy step has an amount difference strictly
\* below 1 and a date difference of at most 7 days, which it reports as
\* daysDifference; a statement entry left unmatched has no remaining book
\* transaction within both tolerances.  Book {2024-02-01, 1000.00} against
\* statement {2024-02-08, 1000.50} is matched with daysDifference 7, against
\* {2024-02-09, 1000.50} it stays unmatched, and an amount difference of
\* exactly 1 never matches.
C17_FuzzyTolerances ==
    ReconDone =>
        /\ \A p \in Range(FuzzyPairs) :
              /\ AmountGap(p.statementEntry, p.bookTransaction) < 1000
              /\ DayGap(p.statementEntry, p.bookTransaction) <= 7
              /\ p.daysDifference = DayGap(p.statementEntry, p.bookTransaction)
              /\ p.matchType = IF p.daysDifference = 0 THEN "Amount+Date"
                                                       ELSE "Amount (Date Mismatch)"
        /\ \A e \in Range(reconciliation.data.unmatchedInStatement),
              b \in Range(reconciliation.data.unmatchedInBooks) :
              ~(AmountGap(e, b) < 1000 /\ DayGap(e, b) <= 7)
        /\ (/\ Len(BookInput) = 1 /\ Len(bankStatement) = 1
            /\ BookInput[1].date = <<2024, 2, 1>> /\ BookInput[1].debit = 1000000
            /\ bankStatement[1].debit = 1000500)
           => IF bankStatement[1].date = <<2024, 2, 8>>
              THEN /\ Len(FuzzyPairs) = 1
                   /\ FuzzyPairs[1].matchType = "Amount (Date Mismatch)"
                   /\ FuzzyPairs[1].daysDifference = 7
                   /\ reconciliation.data.unmatchedInStatement = <<>>
              ELSE /\ reconciliation.data.matched = <<>>
                   /\ reconciliation.data.unmatchedInStatement = bankStatement

\* Book {2024-02-01, 1000.00} and statement {2024-02-08, 1000.50} were
\* reconciled: one pair at the edge of the date tolerance.
C17_Witness ==
    /\ ReconDone
    /\ Len(BookInput) = 1
    /\ Len(bankStatement) = 1
    /\ AmountGap(bankStatement[1], BookInput[1]) = 500
    /\ Len(FuzzyPairs) = 1
    /\ FuzzyPairs[1].daysDifference = 7

ExactPairs == SelectSeq(reconciliation.data.matched, LAMBDA p : p.matchType = "Exact")

\* Least element of a non-empty set of positions.
First(hits) == CHOOSE i \in hits : \A j \in hits : i <= j

\* The pairs the stated rule makes: each statement entry with a cheque number,
\* in statement order, takes the first book transaction, in book order, of the
\* same cheque number and the same amount to 2 decimals that no earlier exact
\* match has taken.
RECURSIVE StatedExactPairs(_, _, _)
StatedExactPairs(book, statement, taken) ==
    IF statement = <<>> THEN <<>>
    ELSE LET entry == Head(statement)
             hits == {b \in 1..Len(book) :
                        /\ b \notin taken
                        /\ book[b].chequeNumber = entry.chequeNumber
                        /\ ToFixed2(DebitOrCredit(book[b])) = ToFixed2(DebitOrCredit(entry))}
         IN IF entry.chequeNumber # "" /\ hits # {}
            THEN <<<<First(hits), entry.idx>>>>
                    \o StatedExactPairs(book, Tail(statement), taken \cup {First(hits)})
            ELSE StatedExactPairs(book, Tail(statement), taken)

\* C24: a statement entry with a cheque number is matched 'Exact' to the first
\* book transaction, in book order, with the same cheque number and the same
\* amount rounded to 2 decimals that no earlier exact match has taken, whatever
\* the two dates; no other pair is 'Exact'.  Book {2024-01-10, CHQ100, 5000}
\* and statement {2024-01-12, CHQ100, 5000} give one Exact pair.
C24_ExactByChequeAndAmount ==
    ReconDone =>
        /\ [k \in 1..Len(ExactPairs) |->
              <<ExactPairs[k].bookTransaction.idx, ExactPairs[k].statementEntry.idx>>]
             = StatedExactPairs(BookInput, bankStatement, {})
        /\ vouchers = ChequeBook =>
              /\ Len(reconciliation.data.matched) = 1
              /\ reconciliation.data.matched[1].matchType = "Exact"

\* The cheque of 2024-01-10 was reconciled with the statement line of
\* 2024-01-12 as one Exact pair.
C24_Witness ==
    /\ ReconDone
    /\ vouchers = ChequeBook
    /\ Len(ExactPairs) = 1
    /\ ExactPairs[1].bookTransaction.date = <<2024, 1, 10>>
    /\ ExactPairs[1].statementEntry.date = <<2024, 1, 12>>

\* Book transactions in the pairs made for statement entries before entry e.
TakenBefore(e) ==
    {p.bookTransaction.idx : p \in {q \in Range(reconciliation.data.matched) :
                                        q.statementEntry.idx < e}}

\* Book transactions still unmatched when entry e is processed and within
\* both tolerances of it.
OpenWithinTolerances(e) ==
    {b \in 1..Len(BookInput) :
        /\ b \notin TakenBefore(e)
        /\ AmountGap(bankStatement[e], BookInput[b]) < 1000
        /\ DayGap(bankStatement[e], BookInput[b]) <= 7}

\* C25: the fuzzy step is greedy.  Pairs are made in statement order; each
\* pair of the fuzzy step holds the first book transaction, in book order,
\* that no pair of an earlier entry holds and that is within both tolerances,
\* whether or not a later one is closer; an entry stays unmatched only when no
\* such book transaction is left.
C25_FuzzyIsGreedy ==
    ReconDone =>
        /\ \A k \in 1..(Len(reconciliation.data.matched) - 1) :
              reconciliation.data.matched[k].statementEntry.idx
                 < reconciliation.data.matched[k + 1].statementEntry.idx
        /\ \A p \in Range(FuzzyPairs) :
              /\ OpenWithinTolerances(p.statementEntry.idx) # {}
              /\ p.bookTransaction.idx = First(OpenWithinTolerances(p.statementEntry.idx))
        /\ \A e \in Range(reconciliation.data.unmatchedInStatement) :
              OpenWithinTolerances(e.idx) = {}

\* A fuzzy pair was made with the first book transaction within the
\* tolerances although a later one, still unmatched, is closer in date.
C25_Witness ==
    /\ ReconDone
    /\ \E p \in Range(FuzzyPairs) :
          \E b \in OpenWithinTolerances(p.statementEntry.idx) :
              /\ b > p.bookTransaction.idx
              /\ DayGap(p.statementEntry, BookInput[b])
                    < DayGap(p.statementEntry, p.bookTransaction)

\* C26: in every result of autoReconcile a pair is of one of three kinds; an
\* 'Exact' pair carries no nonzero daysDifference, any other pair is
\* 'Amount+Date' exactly when its daysDifference is 0, and an
\* 'Amount (Date Mismatch)' pair has a daysDifference above 0 and at most 7.
C26_MatchTypeAndDaysDifference ==
    ReconDone =>
        \A p \in Range(reconciliation.data.matched) :
            /\ p.matchType \in {"Exact", "Amount+Date", "Amount (Date Mismatch)"}
            /\ p.matchType = "Exact" =>
                  ("daysDifference" \in DOMAIN p => p.daysDifference = 0)
            /\ p.matchType # "Exact" =>
                  /\ "daysDifference" \in DOMAIN p
                  /\ p.matchType = "Amount+Date" <=> p.daysDifference = 0
            /\ p.matchType = "Amount (Date Mismatch)" =>
                  p.daysDifference > 0 /\ p.daysDifference <= 7

\* One reconciliation made a pair of each fuzzy kind: one on the same date
\* and one a day or more apart.
C26_Witness ==
    /\ ReconDone
    /\ \E p, q \in Range(reconciliation.data.matched) :
          /\ p.matchType = "Amount+Date"
          /\ q.matchType = "Amount (Date Mismatch)"
          /\ q.daysDifference = 1

(***************************************************************************)
(* Bank reconciliation statement and aging of uncleared items              *)
(***************************************************************************)
MaxBrsBook == 2

\* 0, 90, 91 and 181 days before 2024-03-31
BrsDates == {<<2024, 3, 31>>, <<2024, 1, 1>>, <<2023, 12, 31>>, <<2023, 10, 2>>}

\* 1000.00 deposited, 1000.50 paid by cheque, and an entry without an amount
BrsAmounts == {1000000, -1000500, 0}

\* not cleared, cleared on 2024-03-31, cleared on 2024-04-02
BankDates == {<<>>, <<2024, 3, 31>>, <<2024, 4, 2>>}

BrsVouchers ==
    {[DATE |-> d, AMOUNT |-> a, INSTRUMENTNUMBER |-> "CHQ100", BANKDATE |-> b] :
        d \in BrsDates, a \in BrsAmounts, b \in BankDates}

InitBrs ==
    /\ vouchers \in SeqUpTo(BrsVouchers, MaxBrsBook)
    /\ bankStatement = <<>>
    /\ reconciliation = None
    /\ IdleBrs
    /\ IdleGst
    /\ IdleAging
    /\ IdleAudit
    /\ IdleFix
    /\ IdleRest

\* generateBRS(bankLedgerName, asOnDate)
GenerateBRSCall ==
    /\ brs = None
    /\ \E bookOk \in BOOLEAN :
          brs' = IF bookOk
                 THEN GenerateBRS(GetBankBook(vouchers), brsAsOnDate)
                 ELSE [success |-> FALSE, error |-> "Tally request failed"]
    /\ UNCHANGED <<vouchers, bankStatement, reconciliation, brsAsOnDate, unclearedAging,
                   gstVars, agingVars, auditVars, fixVars, restVars>>

\* getUnclearedAging(bankLedgerName, asOnDate)
GetUnclearedAgingCall ==
    /\ unclearedAging = None
    /\ \E bookOk \in BOOLEAN :
          unclearedAging' =
              IF bookOk
              THEN GetUnclearedAging(GenerateBRS(GetBankBook(vouchers), brsAsOnDate).data,
                                     brsAsOnDate)
              ELSE [success |-> FALSE, error |-> "Tally request failed"]
    /\ UNCHANGED <<vouchers, bankStatement, reconciliation, brsAsOnDate, brs,
                   gstVars, agingVars, auditVars, fixVars, restVars>>

NextBrs == GenerateBRSCall \/ GetUnclearedAgingCall

SpecBrs == InitBrs /\ [][NextBrs]_vars

UnclearedAgingDone == unclearedAging # None /\ unclearedAging.success

\* Days from the date of book transaction b to the as-on date.
AgeOnAsOnDate(b) == DateToDays(brsAsOnDate) - DateToDays(BookInput[b].date)

\* Book transaction b has no bank date on or before the as-on date.
NotReconciledOnAsOnDate(b) ==
    \/ BookInput[b].bankDate = <<>>
    \/ DateToDays(BookInput[b].bankDate) > DateToDays(brsAsOnDate)

\* The cheques of the book uncleared on the as-on date and older than limit days.
UnclearedChequesOlderThan(limit) ==
    {b \in 1..Len(BookInput) :
        /\ BookInput[b].credit > 0
        /\ NotReconciledOnAsOnDate(b)
        /\ AgeOnAsOnDate(b) > limit}

\* staleCheques holds exactly the uncleared cheques older than limit days,
\* each once, and staleChequesTotal is the sum of their amounts.
StaleAreOlderThan(limit) ==
    LET stale == unclearedAging.data.staleCheques
    IN /\ {stale[k].idx : k \in 1..Len(stale)} = UnclearedChequesOlderThan(limit)
       /\ Len(stale) = Cardinality(UnclearedChequesOlderThan(limit))
       /\ unclearedAging.data.staleChequesTotal
             = SumSeq([b \in 1..Len(BookInput) |->
                         IF b \in UnclearedChequesOlderThan(limit)
                         THEN BookInput[b].credit ELSE 0])

\* C28 as stated: the stale cheques are exactly the uncleared cheques more
\* than 180 days old on the as-on date, staleChequesTotal their sum.
C28_StaleAbove180 == UnclearedAgingDone => StaleAreOlderThan(180)

\* C28 (amended): the stale cheques are exactly the uncleared cheques more
\* than 90 days old on the as-on date, that is the cheques of the oldest
\* bucket, above90Days, and staleChequesTotal is the sum of their amounts.
C28_StaleAbove90 ==
    UnclearedAgingDone =>
        /\ StaleAreOlderThan(90)
        /\ unclearedAging.data.staleCheques = unclearedAging.data.aging.cheques.above90Days
        /\ unclearedAging.data.staleChequesTotal
              = unclearedAging.data.aging.cheques.totals.above90

BrsDone == brs # None /\ brs.success

\* Number of times book transaction b is listed in items.
TimesListed(items, b) == Cardinality({k \in 1..Len(items) : items[k].idx = b})

\* Book transaction b is in exactly one of the two lists of uncleared items,
\* once, among the cheques if it is a payment and among the deposits if it
\* is a receipt.
InOneUnclearedList(b) ==
    /\ TimesListed(brs.data.unClearedCheques, b) + TimesListed(brs.data.unClearedDeposits, b) = 1
    /\ TimesListed(brs.data.unClearedCheques, b) = 1 => BookInput[b].credit > 0
    /\ TimesListed(brs.data.unClearedDeposits, b) = 1 => BookInput[b].debit > 0

InNoUnclearedList(b) ==
    TimesListed(brs.data.unClearedCheques, b) + TimesListed(brs.data.unClearedDeposits, b) = 0

\* balanceAsPerBooks is the running balance of the last book transaction and
\* balanceAsPerBank adds the uncleared cheques and deducts the uncleared deposits.
BrsBalances ==
    /\ Len(BookInput) > 0 => brs.data.balanceAsPerBooks = BookInput[Len(BookInput)].balance
    /\ brs.data.balanceAsPerBank
          = brs.data.balanceAsPerBooks
              + SumSeq([k \in 1..Len(brs.data.unClearedCheques) |->
                          brs.data.unClearedCheques[k].credit])
              - SumSeq([k \in 1..Len(brs.data.unClearedDeposits) |->
                          brs.data.unClearedDeposits[k].debit])

\* C30 as stated: the balances agree, every book transaction not reconciled
\* on the as-on date is in exactly one of unClearedCheques and
\* unClearedDeposits, and a reconciled one is in neither.
C30_EveryUnreconciledListed ==
    BrsDone =>
        /\ BrsBalances
        /\ \A b \in 1..Len(BookInput) :
              IF NotReconciledOnAsOnDate(b) THEN InOneUnclearedList(b) ELSE InNoUnclearedList(b)

\* C30 (amended): the balances agree (balanceAsPerBooks is 0 for an empty
\* book), every book transaction of a non-zero amount not reconciled on the
\* as-on date is in exactly one of unClearedCheques and unClearedDeposits, and
\* a reconciled transaction or one of amount zero is in neither.
C30_NonZeroUnreconciledListed ==
    BrsDone =>
        /\ BrsBalances
        /\ Len(BookInput) = 0 => brs.data.balanceAsPerBooks = 0
        /\ \A b \in 1..Len(BookInput) :
              IF NotReconciledOnAsOnDate(b) /\ DebitOrCredit(BookInput[b]) # 0
              THEN InOneUnclearedList(b)
              ELSE InNoUnclearedList(b)

\* A statement with a cheque cleared only after the as-on date and a deposit
\* not yet cleared: the bank balance differs from the book balance.
C30_Witness ==
    /\ BrsDone
    /\ Len(brs.data.unClearedCheques) = 1
    /\ brs.data.unClearedCheques[1].bankDate = <<2024, 4, 2>>
    /\ Len(brs.data.unClearedDeposits) = 1
    /\ brs.data.balanceAsPerBank = brs.data.balanceAsPerBooks + 500

\* A cheque uncleared for 91 days was flagged as stale, next to one of 90
\* days that was not.
C28_Witness ==
    /\ UnclearedAgingDone
    /\ Len(unclearedAging.data.staleCheques) = 1
    /\ AgeOnAsOnDate(unclearedAging.data.staleCheques[1].idx) = 91
    /\ \E b \in 1..Len(BookInput) :
          /\ BookInput[b].credit > 0
          /\ NotReconciledOnAsOnDate(b)
          /\ AgeOnAsOnDate(b) = 90

(***************************************************************************)
(* Strings (String.prototype.toLowerCase, includes)                        *)
(***************************************************************************)
UpperCaseLetters == "ABCDEFGHIJKLMNOPQRSTUVWXYZ"

LowerCaseLetters == "abcdefghijklmnopqrstuvwxyz"

Digits == "0123456789"

CharAt(s, i) == SubSeq(s, i, i)

\* The characters of a string, as a set
CharsOf(alphabet) == {CharAt(alphabet, i) : i \in 1..Len(alphabet)}

UpperSet == CharsOf(UpperCaseLetters)

LowerSet == CharsOf(LowerCaseLetters)

DigitSet == CharsOf(Digits)

LowerOf == [c \in UpperSet |->
              CharAt(LowerCaseLetters,
                     CHOOSE i \in 1..Len(UpperCaseLetters) : CharAt(UpperCaseLetters, i) = c)]

UpperOf == [c \in LowerSet |->
              CharAt(UpperCaseLetters,
                     CHOOSE i \in 1..Len(LowerCaseLetters) : CharAt(LowerCaseLetters, i) = c)]

LowerChar(c) == IF c \in UpperSet THEN LowerOf[c] ELSE c

UpperChar(c) == IF c \in LowerSet THEN UpperOf[c] ELSE c

RECURSIVE ToLowerCase(_)
ToLowerCase(s) ==
    IF Len(s) = 0 THEN ""
    ELSE LowerChar(CharAt(s, 1)) \o ToLowerCase(SubSeq(s, 2, Len(s)))

RECURSIVE ToUpperCase(_)
ToUpperCase(s) ==
    IF Len(s) = 0 THEN ""
    ELSE UpperChar(CharAt(s, 1)) \o ToUpperCase(SubSeq(s, 2, Len(s)))

\* s.includes(k)
Includes(s, k) ==
    \E i \in 1..(Len(s) - Len(k) + 1) : SubSeq(s, i, i + Len(k) - 1) = k

(***************************************************************************)
(* GSTTools.reconcileWithGSTR2A                                            *)
(***************************************************************************)
\* `${txn.partyGSTIN}_${txn.invoiceNumber}_${txn.invoiceDate}`.toLowerCase()
gstCreateMatchKey(txn) ==
    ToLowerCase(txn.partyGSTIN \o "_" \o txn.invoiceNumber \o "_" \o txn.invoiceDate)

\* A Map is the sequence of its entries in insertion order.
MapHas(m, key) == \E i \in 1..Len(m) : m[i].key = key

MapGet(m, key) == m[CHOOSE i \in 1..Len(m) : m[i].key = key].value

\* Map.prototype.set: an existing key keeps its position and takes the new value.
MapSet(m, key, value) ==
    IF MapHas(m, key)
    THEN [i \in 1..Len(m) |-> IF m[i].key = key THEN [key |-> key, value |-> value] ELSE m[i]]
    ELSE Append(m, [key |-> key, value |-> value])

MapDelete(m, key) == SelectSeq(m, LAMBDA e : e.key # key)

\* Array.from(map.values())
MapValues(m) == [i \in 1..Len(m) |-> m[i].value]

RECURSIVE BuildGstMap(_, _)
BuildGstMap(m, txns) ==
    IF txns = <<>> THEN m
    ELSE BuildGstMap(MapSet(m, gstCreateMatchKey(Head(txns)), Head(txns)), Tail(txns))

\* Index of the first return transaction of the same GSTIN whose invoice value
\* differs by less than 100; 0 when there is none (null).
findFuzzyMatch(tallyTxn, returnTxns) ==
    LET hits == {i \in 1..Len(returnTxns) :
                    /\ tallyTxn.partyGSTIN = returnTxns[i].partyGSTIN
                    /\ Abs(tallyTxn.invoiceValue - returnTxns[i].invoiceValue) < 100000}
    IN IF hits = {} THEN 0 ELSE CHOOSE i \in hits : \A j \in hits : i <= j

\* Body of `for (const [key, tallyTxn] of tallyMap)`.
GstReconcileEntry(st, key, tallyTxn) ==
    IF MapHas(st.returnMap, key)
    THEN LET returnTxn == MapGet(st.returnMap, key)
             st1 == [st EXCEPT !.returnMap = MapDelete(@, key)]
         IN IF Abs(tallyTxn.invoiceValue - returnTxn.invoiceValue) > 1000
            THEN [st1 EXCEPT !.amountMismatch =
                     Append(@, [tallyTransaction |-> tallyTxn,
                                returnTransaction |-> returnTxn,
                                mismatchType |-> "Invoice Value Mismatch"])]
            ELSE IF Abs(tallyTxn.totalTax - returnTxn.totalTax) > 1000
            THEN [st1 EXCEPT !.amountMismatch =
                     Append(@, [tallyTransaction |-> tallyTxn,
                                returnTransaction |-> returnTxn,
                                mismatchType |-> "Tax Amount Mismatch"])]
            ELSE [st1 EXCEPT !.matched = Append(@, tallyTxn)]
    ELSE LET values == MapValues(st.returnMap)
             f == findFuzzyMatch(tallyTxn, values)
         IN IF f > 0
            THEN [st EXCEPT !.amountMismatch =
                     Append(@, [tallyTransaction |-> tallyTxn,
                                returnTransaction |-> values[f],
                                mismatchType |-> "Invoice Number/Date Mismatch"])]
            ELSE [st EXCEPT !.inTallyNotInReturn = Append(@, tallyTxn)]

RECURSIVE GstReconcileLoop(_, _)
GstReconcileLoop(st, entries) ==
    IF entries = <<>> THEN st
    ELSE GstReconcileLoop(GstReconcileEntry(st, Head(entries).key, Head(entries).value),
                          Tail(entries))

\* reconcileWithGSTR2A once the purchase register has been fetched.
ReconcileWithGSTR2A(tallyTransactions, returnData) ==
    LET tallyMap == BuildGstMap(<<>>, tallyTransactions)
        returnMap == BuildGstMap(<<>>, returnData)
        st0 == [returnMap |-> returnMap,
                matched |-> <<>>,
                inTallyNotInReturn |-> <<>>,
                amountMismatch |-> <<>>]
        st == GstReconcileLoop(st0, tallyMap)
    IN [success |-> TRUE,
        data |-> [matched |-> st.matched,
                  inTallyNotInReturn |-> st.inTallyNotInReturn,
                  inReturnNotInTally |-> MapValues(st.returnMap),
                  amountMismatch |-> st.amountMismatch,
                  gstinMismatch |-> <<>>]]

(***************************************************************************)
(* Inputs of the GST reconciliation                                        *)
(***************************************************************************)
MaxTally == 2

MaxReturn == 2

TallyPurchases ==
    {[idx |-> 0, partyGSTIN |-> "27AAA", invoiceNumber |-> n,
      invoiceDate |-> "2024-02-01", invoiceValue |-> v, totalTax |-> 1800000] :
        n \in {"INV1", "inv1"}, v \in {10000000, 10050000}}

ReturnPurchases ==
    {[idx |-> 0, partyGSTIN |-> g, invoiceNumber |-> n,
      invoiceDate |-> "2024-02-01", invoiceValue |-> 10000000, totalTax |-> t] :
        g \in {"27AAA", "29BBB"}, n \in {"INV1", "INV2"}, t \in {1800000, 1802000}}

InitGst ==
    /\ \E s \in SeqUpTo(TallyPurchases, MaxTally) : purchaseVouchers = WithIdx(s)
    /\ \E s \in SeqUpTo(ReturnPurchases, MaxReturn) : gstr2aData = WithIdx(s)
    /\ gstReconciliation = None
    /\ IdleRecon
    /\ IdleAging
    /\ IdleAudit
    /\ IdleFix
    /\ IdleRest

\* reconcileWithGSTR2A(fromDate, toDate, gstr2aData)
ReconcileWithGSTR2ACall ==
    /\ gstReconciliation = None
    /\ \E purchaseOk \in BOOLEAN :
          gstReconciliation' =
              IF purchaseOk
              THEN ReconcileWithGSTR2A(purchaseVouchers, gstr2aData)
              ELSE [success |-> FALSE, error |-> "Tally request failed"]
    /\ UNCHANGED <<purchaseVouchers, gstr2aData, reconVars, agingVars, auditVars, fixVars, restVars>>

NextGst == ReconcileWithGSTR2ACall

SpecGst == InitGst /\ [][NextGst]_vars

GstDone == gstReconciliation # None /\ gstReconciliation.success

CountIdx(s, n) == Cardinality({i \in 1..Len(s) : s[i].idx = n})

\* Number of places a Tally purchase ends in.
PlacesOfTally(t) ==
    CountIdx(gstReconciliation.data.matched, t)
    + Cardinality({i \in 1..Len(gstReconciliation.data.amountMismatch) :
                      gstReconciliation.data.amountMismatch[i].tallyTransaction.idx = t})
    + CountIdx(gstReconciliation.data.inTallyNotInReturn, t)

\* Return transaction r was taken by the key lookup of a Tally purchase that went
\* to matched (matched keeps the Tally side only).
TakenByMatched(r) ==
    /\ \E m \in Range(gstReconciliation.data.matched) :
          gstCreateMatchKey(m) = gstCreateMatchKey(gstr2aData[r])
    /\ \A r2 \in 1..Len(gstr2aData) :
          gstCreateMatchKey(gstr2aData[r2]) = gstCreateMatchKey(gstr2aData[r]) => r2 <= r

\* Number of places a return transaction ends in.
PlacesOfReturn(r) ==
    (IF TakenByMatched(r) THEN 1 ELSE 0)
    + Cardinality({i \in 1..Len(gstReconciliation.data.amountMismatch) :
                      gstReconciliation.data.amountMismatch[i].returnTransaction.idx = r})
    + CountIdx(gstReconciliation.data.inReturnNotInTally, r)

\* C7: every Tally purchase ends in exactly one of matched, amountMismatch and
\* inTallyNotInReturn, and every return transaction ends in exactly one place
\* (paired with one Tally purchase, or listed in inReturnNotInTally).
C7_GstEveryRecordInExactlyOnePlace ==
    GstDone =>
        /\ \A t \in 1..Len(purchaseVouchers) : PlacesOfTally(t) = 1
        /\ \A r \in 1..Len(gstr2aData) : PlacesOfReturn(r) = 1

(***************************************************************************)
(* The two reconciliations on corresponding inputs                         *)
(***************************************************************************)
Pad2(n) == CharAt(Digits, (n \div 10) + 1) \o CharAt(Digits, (n % 10) + 1)

\* TallyConnection.parseDate: 'YYYY-MM-DD'
DateString(date) ==
    Pad2(date[1] \div 100) \o Pad2(date[1] % 100) \o "-" \o Pad2(date[2]) \o "-" \o Pad2(date[3])

\* The GST record that corresponds to a bank record: the instrument number is
\* the invoice number, the amount the invoice value, the date the invoice date;
\* all records belong to one counterparty.
AsGstTransaction(x) ==
    [idx |-> x.idx, partyGSTIN |-> "27AAA", invoiceNumber |-> x.chequeNumber,
     invoiceDate |-> DateString(x.date), invoiceValue |-> DebitOrCredit(x), totalTax |-> 0]

AsGstTransactions(s) == [i \in 1..Len(s) |-> AsGstTransaction(s[i])]

\* <<book idx, external idx>> pairs of a bank reconciliation.
BankPairs(data) ==
    {<<p.bookTransaction.idx, p.statementEntry.idx>> : p \in Range(data.matched)}

\* <<book idx, external idx>> pairs of a GST reconciliation of returnData: the
\* pairs of amountMismatch, and for a Tally purchase in matched the return
\* transaction its key lookup found (the last one set under that key).
IdxSet(s) == {s[i].idx : i \in 1..Len(s)}

GstPairs(data, returnData) ==
    {<<p.tallyTransaction.idx, p.returnTransaction.idx>> : p \in Range(data.amountMismatch)}
    \cup {q \in IdxSet(data.matched) \X (1..Len(returnData)) :
            \E m \in Range(data.matched) :
                /\ m.idx = q[1]
                /\ gstCreateMatchKey(returnData[q[2]]) = gstCreateMatchKey(m)
                /\ \A r2 \in 1..Len(returnData) :
                      gstCreateMatchKey(returnData[r2]) = gstCreateMatchKey(m) => r2 <= q[2]}

\* C8: on corresponding inputs reconcileWithGSTR2A and autoReconcile produce the
\* same pairing and the same unmatched sets on both sides.
C8_SameMatcherOnBothReconciliations ==
    ReconDone =>
        LET g == ReconcileWithGSTR2A(AsGstTransactions(BookInput),
                                     AsGstTransactions(bankStatement)).data
        IN /\ BankPairs(reconciliation.data) = GstPairs(g, AsGstTransactions(bankStatement))
           /\ IdxSet(reconciliation.data.unmatchedInBooks) = IdxSet(g.inTallyNotInReturn)
           /\ IdxSet(reconciliation.data.unmatchedInStatement) = IdxSet(g.inReturnNotInTally)

(***************************************************************************)
(* FinancialTools.getDebtorsAging / getCreditorsAging                      *)
(***************************************************************************)
\* Math.floor((reconDate.getTime() - billDate.getTime()) / (1000*60*60*24)),
\* with billDate = new Date(bill.billDate || asOnDate)
AgingDays(bill, asOn) ==
    DateToDays(asOn) - DateToDays(IF bill.billDate # <<>> THEN bill.billDate ELSE asOn)

\* Faulty variant: the upper limit of each bucket belongs to the next one.
BucketOf_StrictLimits(agingDays) ==
    IF agingDays <= 0 THEN "current"
    ELSE IF agingDays < 30 THEN "days30"
    ELSE IF agingDays < 60 THEN "days60"
    ELSE IF agingDays < 90 THEN "days90"
    ELSE IF agingDays < 180 THEN "days180"
    ELSE "above180"

\* The if / else-if chain over agingDays.
BucketOf(agingDays) ==
    IF agingDays <= 0 THEN "current"
    ELSE IF agingDays <= 30 THEN "days30"
    ELSE IF agingDays <= 60 THEN "days60"
    ELSE IF agingDays <= 90 THEN "days90"
    ELSE IF agingDays <= 180 THEN "days180"
    ELSE "above180"

BucketNames == {"current", "days30", "days60", "days90", "days180", "above180"}

\* Body of `for (const bill of bills)`; absolute is TRUE in getCreditorsAging.
RECURSIVE AgeBills(_, _, _, _)
AgeBills(aged, bills, asOn, absolute) ==
    IF bills = <<>> THEN aged
    ELSE LET bill == Head(bills)
             agingDays == AgingDays(bill, asOn)
             amount == IF absolute THEN Abs(bill.amount) ELSE bill.amount
             b == BucketOf(agingDays)
             next == [aged EXCEPT
                        ![b] = @ + amount,
                        !.billWiseDetails = Append(@, [billDate |-> bill.billDate,
                                                       amount |-> amount,
                                                       pending |-> amount,
                                                       agingDays |-> agingDays])]
         IN AgeBills(next, Tail(bills), asOn, absolute)

AgeLedger(ledger, asOn, absolute) ==
    LET balance == ledger.CLOSINGBALANCE
        total == IF absolute THEN Abs(balance) ELSE balance
        aged0 == [partyName |-> ledger.NAME,
                  current |-> 0, days30 |-> 0, days60 |-> 0,
                  days90 |-> 0, days180 |-> 0, above180 |-> 0,
                  total |-> total,
                  billWiseDetails |-> <<>>]
        aged == AgeBills(aged0, ledger.bills, asOn, absolute)
    IN IF Len(ledger.bills) = 0 THEN [aged EXCEPT !.current = total] ELSE aged

RECURSIVE GetDebtorsAging(_, _)
GetDebtorsAging(ledgers, asOn) ==
    IF ledgers = <<>> THEN <<>>
    ELSE IF Head(ledgers).CLOSINGBALANCE <= 0
    THEN GetDebtorsAging(Tail(ledgers), asOn)
    ELSE <<AgeLedger(Head(ledgers), asOn, FALSE)>> \o GetDebtorsAging(Tail(ledgers), asOn)

RECURSIVE GetCreditorsAging(_, _)
GetCreditorsAging(ledgers, asOn) ==
    IF ledgers = <<>> THEN <<>>
    ELSE IF Head(ledgers).CLOSINGBALANCE >= 0
    THEN GetCreditorsAging(Tail(ledgers), asOn)
    ELSE <<AgeLedger(Head(ledgers), asOn, TRUE)>> \o GetCreditorsAging(Tail(ledgers), asOn)

(***************************************************************************)
(* Inputs of the aging reports                                             *)
(***************************************************************************)
MaxBills == 2

MaxParties == 1

\* no bill date, 0, 60 and 181 days before 2024-03-31
BillDates == {<<>>, <<2024, 3, 31>>, <<2024, 1, 31>>, <<2023, 10, 2>>}

BillAmounts == {600000, -300000}

Bills == {[billDate |-> d, amount |-> a] : d \in BillDates, a \in BillAmounts}

ClosingBalances == {300000, -300000}

PartyLedgers ==
    {[NAME |-> "Party", CLOSINGBALANCE |-> c, bills |-> b] :
        c \in ClosingBalances, b \in SeqUpTo(Bills, MaxBills)}

\* Bill dates 1 day after and 1, 30, 31, 61, 90, 91 and 180 days before 2024-03-31
LimitBillDates ==
    {<<2024, 4, 1>>, <<2024, 3, 30>>, <<2024, 3, 1>>, <<2024, 2, 29>>, <<2024, 1, 30>>,
     <<2024, 1, 1>>, <<2023, 12, 31>>, <<2023, 10, 3>>}

\* One party with one bill at a limit of a bucket.
LimitLedgers ==
    {[NAME |-> "Party", CLOSINGBALANCE |-> c, bills |-> <<[billDate |-> d, amount |-> c]>>] :
        c \in ClosingBalances, d \in LimitBillDates}

InitAging ==
    /\ \/ agingLedgers \in SeqUpTo(PartyLedgers, MaxParties)
       \/ \E l \in LimitLedgers : agingLedgers = <<l>>
    /\ asOnDate = <<2024, 3, 31>>
    /\ agingResult = None
    /\ IdleRecon
    /\ IdleGst
    /\ IdleAudit
    /\ IdleFix
    /\ IdleRest

\* getDebtorsAging(asOnDate)
GetDebtorsAgingCall ==
    /\ agingResult = None
    /\ \E ok \in BOOLEAN :
          agingResult' =
              IF ok
              THEN [success |-> TRUE, data |-> GetDebtorsAging(agingLedgers, asOnDate)]
              ELSE [success |-> FALSE, error |-> "Tally request failed"]
    /\ UNCHANGED <<agingLedgers, asOnDate, reconVars, gstVars, auditVars, fixVars, restVars>>

\* getCreditorsAging(asOnDate)
GetCreditorsAgingCall ==
    /\ agingResult = None
    /\ \E ok \in BOOLEAN :
          agingResult' =
              IF ok
              THEN [success |-> TRUE, data |-> GetCreditorsAging(agingLedgers, asOnDate)]
              ELSE [success |-> FALSE, error |-> "Tally request failed"]
    /\ UNCHANGED <<agingLedgers, asOnDate, reconVars, gstVars, auditVars, fixVars, restVars>>

NextAging == GetDebtorsAgingCall \/ GetCreditorsAgingCall

SpecAging == InitAging /\ [][NextAging]_vars

AgingDone == agingResult # None /\ agingResult.success

SumOfBuckets(aged) ==
    aged.current + aged.days30 + aged.days60 + aged.days90 + aged.days180 + aged.above180

RECURSIVE SumOfBillAmounts(_)
SumOfBillAmounts(details) ==
    IF details = <<>> THEN 0 ELSE Head(details).amount + SumOfBillAmounts(Tail(details))

\* C9: for every party of an aging report each bill is counted in exactly one
\* bucket (the buckets add up to the bills) and the six buckets add up to the
\* party's reported total.
C9_BucketsSumToTotal ==
    AgingDone =>
        \A i \in 1..Len(agingResult.data) :
            LET aged == agingResult.data[i]
            IN /\ aged.billWiseDetails # <<>>
                    => SumOfBuckets(aged) = SumOfBillAmounts(aged.billWiseDetails)
               /\ SumOfBuckets(aged) = aged.total

\* The stated range of each bucket, in whole days.
InBucket(b, d) ==
    CASE b = "current" -> d <= 0
      [] b = "days30" -> 1 <= d /\ d <= 30
      [] b = "days60" -> 31 <= d /\ d <= 60
      [] b = "days90" -> 61 <= d /\ d <= 90
      [] b = "days180" -> 91 <= d /\ d <= 180
      [] b = "above180" -> d > 180

\* Days from the bill date to the as-of date, 0 for a bill without a date.
StatedAge(billDate) ==
    IF billDate = <<>> THEN 0 ELSE DateToDays(asOnDate) - DateToDays(billDate)

RECURSIVE AmountAged(_, _)
AmountAged(details, b) ==
    IF details = <<>> THEN 0
    ELSE (IF InBucket(b, Head(details).agingDays) THEN Head(details).amount ELSE 0)
            + AmountAged(Tail(details), b)

\* C27: every bill is aged by the whole days from its bill date to the as-of
\* date (0 without a bill date) and counted in current iff d <= 0, days30 iff
\* 1..30, days60 iff 31..60, days90 iff 61..90, days180 iff 91..180 and
\* above180 iff d > 180; a party without bills has its whole balance in
\* current; a bill of 2024-01-31 as of 2024-03-31 is 60 days old.
C27_AgingBuckets ==
    AgingDone =>
        \A i \in 1..Len(agingResult.data) :
            LET aged == agingResult.data[i]
            IN /\ \A k \in 1..Len(aged.billWiseDetails) :
                     /\ aged.billWiseDetails[k].agingDays
                           = StatedAge(aged.billWiseDetails[k].billDate)
                     /\ aged.billWiseDetails[k].billDate = <<2024, 1, 31>>
                           => aged.billWiseDetails[k].agingDays = 60
               /\ aged.billWiseDetails # <<>> =>
                     \A b \in BucketNames : aged[b] = AmountAged(aged.billWiseDetails, b)
               /\ aged.billWiseDetails = <<>> =>
                     /\ aged.current = aged.total
                     /\ \A b \in BucketNames \ {"current"} : aged[b] = 0

\* As of 2024-03-31 a party's only bill, dated 2024-01-31, is in days60.
C27_Witness ==
    /\ AgingDone
    /\ asOnDate = <<2024, 3, 31>>
    /\ \E i \in 1..Len(agingResult.data) :
          LET aged == agingResult.data[i]
          IN /\ Len(aged.billWiseDetails) = 1
             /\ aged.billWiseDetails[1].billDate = <<2024, 1, 31>>
             /\ aged.billWiseDetails[1].agingDays = 60
             /\ aged.days60 = 600000

(***************************************************************************)
(* ConfigAuditTools: rule tables                                           *)
(***************************************************************************)
GST_LEDGER_PATTERNS ==
    [OUTPUT_IGST |-> <<"output igst", "igst payable", "igst output", "igst on sales">>,
     OUTPUT_CGST |-> <<"output cgst", "cgst payable", "cgst output", "cgst on sales">>,
     OUTPUT_SGST |-> <<"output sgst", "sgst payable", "sgst output", "sgst on sales",
                       "utgst payable">>,
     INPUT_IGST |-> <<"input igst", "igst receivable", "igst input", "igst on purchase">>,
     INPUT_CGST |-> <<"input cgst", "cgst receivable", "cgst input", "cgst on purchase">>,
     INPUT_SGST |-> <<"input sgst", "sgst receivable", "sgst input", "sgst on purchase",
                      "utgst receivable">>]

TDS_LEDGER_PATTERNS ==
    [TDS_194C |-> <<"tds 194c", "tds on contractor", "tds contractor", "tds - contractor">>,
     TDS_194J |-> <<"tds 194j", "tds on professional", "tds professional",
                    "tds - professional", "tds technical">>,
     TDS_194H |-> <<"tds 194h", "tds on commission", "tds commission", "tds - commission",
                    "tds brokerage">>,
     TDS_194I |-> <<"tds 194i", "tds on rent", "tds rent", "tds - rent">>,
     TDS_194A |-> <<"tds 194a", "tds on interest", "tds interest", "tds - interest">>]

\* Object.entries(TDS_APPLICABLE_EXPENSES), in insertion order
TDS_APPLICABLE_EXPENSES ==
    <<[section |-> "194C",
       keywords |-> <<"contractor", "labour", "job work", "works contract", "sub-contract",
                      "transportation", "freight", "cartage", "loading", "unloading",
                      "catering", "housekeeping", "security">>],
      [section |-> "194J",
       keywords |-> <<"professional", "consultancy", "legal", "audit", "accounting",
                      "technical", "architect", "interior", "doctor", "medical",
                      "engineering", "ca fees", "advocate">>],
      [section |-> "194H", keywords |-> <<"commission", "brokerage", "agency">>],
      [section |-> "194I", keywords |-> <<"rent", "lease", "hire">>],
      [section |-> "194A", keywords |-> <<"interest">>]>>

\* Faulty variant: only the three output ledgers are required.
requiredGSTLedgers_OutputOnly ==
    <<[type |-> "OUTPUT_IGST", name |-> "Output IGST", patterns |-> GST_LEDGER_PATTERNS.OUTPUT_IGST],
      [type |-> "OUTPUT_CGST", name |-> "Output CGST", patterns |-> GST_LEDGER_PATTERNS.OUTPUT_CGST],
      [type |-> "OUTPUT_SGST", name |-> "Output SGST", patterns |-> GST_LEDGER_PATTERNS.OUTPUT_SGST]>>

requiredGSTLedgers ==
    <<[type |-> "OUTPUT_IGST", name |-> "Output IGST", patterns |-> GST_LEDGER_PATTERNS.OUTPUT_IGST],
      [type |-> "OUTPUT_CGST", name |-> "Output CGST", patterns |-> GST_LEDGER_PATTERNS.OUTPUT_CGST],
      [type |-> "OUTPUT_SGST", name |-> "Output SGST", patterns |-> GST_LEDGER_PATTERNS.OUTPUT_SGST],
      [type |-> "INPUT_IGST", name |-> "Input IGST", patterns |-> GST_LEDGER_PATTERNS.INPUT_IGST],
      [type |-> "INPUT_CGST", name |-> "Input CGST", patterns |-> GST_LEDGER_PATTERNS.INPUT_CGST],
      [type |-> "INPUT_SGST", name |-> "Input SGST", patterns |-> GST_LEDGER_PATTERNS.INPUT_SGST]>>

requiredTDSSections ==
    <<[section |-> "194C", name |-> "TDS on Contractor (194C)", patterns |-> TDS_LEDGER_PATTERNS.TDS_194C],
      [section |-> "194J", name |-> "TDS on Professional (194J)", patterns |-> TDS_LEDGER_PATTERNS.TDS_194J],
      [section |-> "194H", name |-> "TDS on Commission (194H)", patterns |-> TDS_LEDGER_PATTERNS.TDS_194H],
      [section |-> "194I", name |-> "TDS on Rent (194I)", patterns |-> TDS_LEDGER_PATTERNS.TDS_194I],
      [section |-> "194A", name |-> "TDS on Interest (194A)", patterns |-> TDS_LEDGER_PATTERNS.TDS_194A]>>

misclassificationRules ==
    <<[keywords |-> <<"rent received", "rent income">>,
       shouldBeUnder |-> "Indirect Incomes", currentlyUnder |-> <<"direct incomes", "sales">>],
      [keywords |-> <<"interest received", "interest income", "bank interest">>,
       shouldBeUnder |-> "Indirect Incomes", currentlyUnder |-> <<"direct incomes", "sales">>],
      [keywords |-> <<"discount received">>,
       shouldBeUnder |-> "Indirect Incomes", currentlyUnder |-> <<"direct incomes", "sales">>],
      [keywords |-> <<"salary", "wages", "staff welfare">>,
       shouldBeUnder |-> "Indirect Expenses", currentlyUnder |-> <<"direct expenses">>],
      [keywords |-> <<"depreciation">>,
       shouldBeUnder |-> "Indirect Expenses", currentlyUnder |-> <<"direct expenses">>],
      [keywords |-> <<"bank charges", "bank commission">>,
       shouldBeUnder |-> "Indirect Expenses", currentlyUnder |-> <<"direct expenses">>],
      [keywords |-> <<"electricity", "power", "telephone", "mobile">>,
       shouldBeUnder |-> "Indirect Expenses", currentlyUnder |-> <<"direct expenses">>],
      [keywords |-> <<"audit fee", "professional fee", "legal fee">>,
       shouldBeUnder |-> "Indirect Expenses", currentlyUnder |-> <<"direct expenses">>],
      [keywords |-> <<"fixed deposit", "fd", "term deposit">>,
       shouldBeUnder |-> "Investments", currentlyUnder |-> <<"bank accounts", "current assets">>],
      [keywords |-> <<"security deposit", "earnest money", "emd">>,
       shouldBeUnder |-> "Deposits (Asset)", currentlyUnder |-> <<"current assets", "loans">>]>>

(***************************************************************************)
(* ConfigAuditTools: issues                                                *)
(***************************************************************************)
\* fixAction absent
NoFixAction == [type |-> "none"]

Issue(id, category, severity, affectedItems, autoFixable, fixAction) ==
    [id |-> id, category |-> category, severity |-> severity,
     affectedItems |-> affectedItems, autoFixable |-> autoFixable, fixAction |-> fixAction]

RECURSIVE Concat(_)
Concat(ss) == IF ss = <<>> THEN <<>> ELSE Head(ss) \o Concat(Tail(ss))

\* patterns.some(p => name.includes(p))
SomeIncluded(name, patterns) == \E i \in 1..Len(patterns) : Includes(name, patterns[i])

\* Array.prototype.slice(0, n)
Slice(s, n) == SubSeq(s, 1, Min(n, Len(s)))

\* JavaScript truthiness of a string-or-missing field
Truthy(v) == v # ""

ParentLower(l) == ToLowerCase(l.PARENT)

NameLower(l) == ToLowerCase(l.NAME)

IsDutiesLedger(l) == Includes(ParentLower(l), "duties") \/ Includes(ParentLower(l), "taxes")

(***************************************************************************)
(* ConfigAuditTools.auditCompanyInfo                                       *)
(***************************************************************************)
IsUpper(c) == c \in UpperSet

IsDigit(c) == c \in DigitSet

\* /^[0-9]{2}[A-Z]{5}[0-9]{4}[A-Z]{1}[1-9A-Z]{1}Z[0-9A-Z]{1}$/ on gstin.toUpperCase()
isValidGSTIN(gstin) ==
    /\ gstin # ""
    /\ Len(gstin) = 15
    /\ LET u == ToUpperCase(gstin)
       IN /\ \A i \in 1..2 : IsDigit(CharAt(u, i))
          /\ \A i \in 3..7 : IsUpper(CharAt(u, i))
          /\ \A i \in 8..11 : IsDigit(CharAt(u, i))
          /\ IsUpper(CharAt(u, 12))
          /\ (IsUpper(CharAt(u, 13)) \/ (IsDigit(CharAt(u, 13)) /\ CharAt(u, 13) # "0"))
          /\ CharAt(u, 14) = "Z"
          /\ (IsUpper(CharAt(u, 15)) \/ IsDigit(CharAt(u, 15)))

\* /^[A-Z]{5}[0-9]{4}[A-Z]{1}$/ on pan.toUpperCase()
isValidPAN(pan) ==
    /\ pan # ""
    /\ Len(pan) = 10
    /\ LET u == ToUpperCase(pan)
       IN /\ \A i \in 1..5 : IsUpper(CharAt(u, i))
          /\ \A i \in 6..9 : IsDigit(CharAt(u, i))
          /\ IsUpper(CharAt(u, 10))

NoFix(id, category, severity, affectedItems) ==
    Issue(id, category, severity, affectedItems, FALSE, NoFixAction)

\* companyResult is the response of getCompanyList, selected is getCompanyName().
AuditCompanyInfo(companyResult, selected) ==
    IF ~companyResult.success THEN <<>>
    ELSE LET found == {i \in 1..Len(companyResult.data) : companyResult.data[i].name = selected}
         IN IF found = {} THEN <<>>
            ELSE LET company == companyResult.data[CHOOSE i \in found : \A j \in found : i <= j]
                 IN (IF ~Truthy(company.gstNumber)
                     THEN <<NoFix("COMP_001", "Company Info", "Critical", <<>>)>>
                     ELSE IF ~isValidGSTIN(company.gstNumber)
                     THEN <<NoFix("COMP_002", "Company Info", "High", <<>>)>>
                     ELSE <<>>)
                    \o (IF ~Truthy(company.panNumber)
                        THEN <<NoFix("COMP_003", "Company Info", "Critical", <<>>)>>
                        ELSE IF ~isValidPAN(company.panNumber)
                        THEN <<NoFix("COMP_004", "Company Info", "High", <<>>)>>
                        ELSE <<>>)
                    \o (IF ~Truthy(company.tanNumber)
                        THEN <<NoFix("COMP_005", "Company Info", "High", <<>>)>>
                        ELSE <<>>)
                    \o (IF ~Truthy(company.state)
                        THEN <<NoFix("COMP_006", "Company Info", "High", <<>>)>>
                        ELSE <<>>)

(***************************************************************************)
(* ConfigAuditTools.auditGSTConfiguration                                  *)
(***************************************************************************)
GstMissingIssue(required) ==
    Issue("GST_" \o required.type \o "_MISSING", "GST", "Critical", <<>>, TRUE,
          [type |-> "create_ledger",
           targetName |-> required.name,
           changes |-> [parent |-> "Duties & Taxes",
                        typeOfDuty |-> "GST",
                        gstDutyHead |-> IF Includes(required.type, "OUTPUT")
                                        THEN "Output" ELSE "Input"]])

\* Body of `for (const ledger of dutiesLedgers)`.
GstNamingIssues(ledger) ==
    LET name == NameLower(ledger)
    IN (IF /\ Includes(name, "gst")
           /\ ~Includes(name, "igst")
           /\ ~Includes(name, "cgst")
           /\ ~Includes(name, "sgst")
           /\ ~Includes(name, "cess")
        THEN <<NoFix("GST_AMBIGUOUS_" \o ledger.NAME, "GST", "High", <<ledger.NAME>>)>>
        ELSE <<>>)
       \o (IF /\ (Includes(name, "igst") \/ Includes(name, "cgst") \/ Includes(name, "sgst"))
              /\ ~Includes(ParentLower(ledger), "duties")
           THEN <<Issue("GST_WRONG_GROUP_" \o ledger.NAME, "GST", "High", <<ledger.NAME>>, TRUE,
                        [type |-> "regroup_ledger",
                         targetName |-> ledger.NAME,
                         changes |-> [parent |-> "Duties & Taxes"]])>>
           ELSE <<>>)

AuditGSTConfiguration(response) ==
    IF ~response.success THEN <<>>
    ELSE LET ledgers == response.data
             dutiesLedgers == SelectSeq(ledgers, IsDutiesLedger)
             salesLedgers == SelectSeq(ledgers, LAMBDA l : Includes(ParentLower(l), "sales"))
             purchaseLedgers == SelectSeq(ledgers, LAMBDA l : Includes(ParentLower(l), "purchase"))
             Unconfigured(l) == ~Truthy(l.GSTAPPLICABLE) /\ ~Truthy(l.ISTAXABLE)
         IN Concat([i \in 1..Len(requiredGSTLedgers) |->
                      IF \E j \in 1..Len(dutiesLedgers) :
                            SomeIncluded(NameLower(dutiesLedgers[j]), requiredGSTLedgers[i].patterns)
                      THEN <<>>
                      ELSE <<GstMissingIssue(requiredGSTLedgers[i])>>])
            \o Concat([i \in 1..Len(dutiesLedgers) |-> GstNamingIssues(dutiesLedgers[i])])
            \o Concat([i \in 1..Len(salesLedgers) |->
                         IF Unconfigured(salesLedgers[i])
                         THEN <<NoFix("GST_SALES_" \o salesLedgers[i].NAME, "GST", "Medium",
                                      <<salesLedgers[i].NAME>>)>>
                         ELSE <<>>])
            \o Concat([i \in 1..Len(purchaseLedgers) |->
                         IF Unconfigured(purchaseLedgers[i])
                         THEN <<NoFix("GST_PURCHASE_" \o purchaseLedgers[i].NAME, "GST", "Medium",
                                      <<purchaseLedgers[i].NAME>>)>>
                         ELSE <<>>])

(***************************************************************************)
(* ConfigAuditTools.auditTDSConfiguration                                  *)
(***************************************************************************)
TdsMissingIssue(required) ==
    Issue("TDS_" \o required.section \o "_MISSING", "TDS", "High", <<>>, TRUE,
          [type |-> "create_ledger",
           targetName |-> required.name,
           changes |-> [parent |-> "Duties & Taxes",
                        typeOfDuty |-> "TDS",
                        tdsSection |-> required.section]])

\* Body of `for (const ledger of expenseLedgers)`: the first section with a
\* matching keyword decides (break).
TdsExpenseIssues(ledger) ==
    LET name == NameLower(ledger)
        hits == {i \in 1..Len(TDS_APPLICABLE_EXPENSES) :
                    SomeIncluded(name, TDS_APPLICABLE_EXPENSES[i].keywords)}
    IN IF hits = {} THEN <<>>
       ELSE LET section == TDS_APPLICABLE_EXPENSES[CHOOSE i \in hits : \A j \in hits : i <= j].section
            IN IF ~Truthy(ledger.ISTDSAPPLICABLE) \/ ledger.ISTDSAPPLICABLE = "No"
               THEN <<Issue("TDS_EXPENSE_" \o ledger.NAME \o "_" \o section, "TDS", "High",
                            <<ledger.NAME>>, TRUE,
                            [type |-> "update_tds_details",
                             targetName |-> ledger.NAME,
                             changes |-> [isTDSApplicable |-> TRUE, tdsSection |-> section]])>>
               ELSE <<>>

Names(ledgers) == [i \in 1..Len(ledgers) |-> ledgers[i].NAME]

AuditTDSConfiguration(response) ==
    IF ~response.success THEN <<>>
    ELSE LET ledgers == response.data
             dutiesLedgers == SelectSeq(ledgers, IsDutiesLedger)
             expenseLedgers == SelectSeq(ledgers, LAMBDA l : Includes(ParentLower(l), "expense"))
             creditorLedgers ==
                 SelectSeq(ledgers, LAMBDA l : Includes(ParentLower(l), "sundry creditor"))
             significant ==
                 SelectSeq(creditorLedgers, LAMBDA l : Abs(l.CLOSINGBALANCE) > 30000000)
             creditorsWithoutPAN ==
                 Names(SelectSeq(significant, LAMBDA l : ~Truthy(l.INCOMETAXNUMBER)))
             creditorsWithoutTDSType ==
                 Names(SelectSeq(significant, LAMBDA l : ~Truthy(l.TDSDEDUCTEETYPE)))
         IN Concat([i \in 1..Len(requiredTDSSections) |->
                      IF \E j \in 1..Len(dutiesLedgers) :
                            SomeIncluded(NameLower(dutiesLedgers[j]), requiredTDSSections[i].patterns)
                      THEN <<>>
                      ELSE <<TdsMissingIssue(requiredTDSSections[i])>>])
            \o Concat([i \in 1..Len(expenseLedgers) |-> TdsExpenseIssues(expenseLedgers[i])])
            \o (IF Len(creditorsWithoutPAN) > 0
                THEN <<NoFix("TDS_CREDITORS_NO_PAN", "TDS", "High", Slice(creditorsWithoutPAN, 10))>>
                ELSE <<>>)
            \o (IF Len(creditorsWithoutTDSType) > 0
                THEN <<NoFix("TDS_CREDITORS_NO_TYPE", "TDS", "Medium",
                             Slice(creditorsWithoutTDSType, 10))>>
                ELSE <<>>)

(***************************************************************************)
(* ConfigAuditTools.auditLedgerClassification                              *)
(***************************************************************************)
\* s.toLowerCase().replace(/[^a-z0-9]/g, '')
RECURSIVE KeepAlnum(_, _)
KeepAlnum(s, i) ==
    IF i > Len(s) THEN ""
    ELSE (IF CharAt(s, i) \in LowerSet \/ IsDigit(CharAt(s, i))
          THEN CharAt(s, i) ELSE "") \o KeepAlnum(s, i + 1)

Normalized(name) == KeepAlnum(ToLowerCase(name), 1)

\* One row dp[i][0..n] of the table, from the row dp[i-1][0..n]; row[j + 1] is dp[i][j].
RECURSIVE LevFill(_, _, _, _, _)
LevFill(row, prev, c, s2, j) ==
    IF j > Len(s2) THEN row
    ELSE LET cell == IF c = CharAt(s2, j)
                     THEN prev[j]
                     ELSE 1 + Min(Min(prev[j + 1], row[j]), prev[j])
         IN IF cell >= 0 THEN LevFill(Append(row, cell), prev, c, s2, j + 1) ELSE row

RECURSIVE LevRows(_, _, _, _)
LevRows(prev, s1, s2, i) ==
    IF i > Len(s1) THEN prev
    ELSE LET row == LevFill(<<i>>, prev, CharAt(s1, i), s2, 1)
         IN IF Len(row) > 0 THEN LevRows(row, s1, s2, i + 1) ELSE prev

levenshteinDistance(s1, s2) ==
    LevRows([j \in 1..(Len(s2) + 1) |-> j - 1], s1, s2, 1)[Len(s2) + 1]

\* Faulty variant: containment is tested in one direction only.
isSimilarName_OneWayContainment(name1, name2) ==
    IF name1 = name2 THEN FALSE
    ELSE IF Includes(name1, name2)
    THEN Len(name1) > 3 /\ Len(name2) > 3
    ELSE LET distance == levenshteinDistance(name1, name2)
             maxLen == Max(Len(name1), Len(name2))
         IN 5 * distance < maxLen /\ maxLen > 5

\* similarity = 1 - distance / maxLen > 0.8  <=>  5 * distance < maxLen
isSimilarName(name1, name2) ==
    IF name1 = name2 THEN FALSE
    ELSE IF Includes(name1, name2) \/ Includes(name2, name1)
    THEN Len(name1) > 3 /\ Len(name2) > 3
    ELSE LET distance == levenshteinDistance(name1, name2)
             maxLen == Max(Len(name1), Len(name2))
         IN 5 * distance < maxLen /\ maxLen > 5

SuspenseIssues(ledger) ==
    IF ledger.CLOSINGBALANCE # 0
    THEN <<NoFix("LEDGER_SUSPENSE_" \o ledger.NAME, "Ledger Classification", "Critical",
                 <<ledger.NAME>>)>>
    ELSE <<>>

\* Body of `for (const ledger of ledgers)`: every rule is tried, none breaks.
MisclassIssues(ledger) ==
    Concat([r \in 1..Len(misclassificationRules) |->
              IF /\ SomeIncluded(NameLower(ledger), misclassificationRules[r].keywords)
                 /\ \E g \in 1..Len(misclassificationRules[r].currentlyUnder) :
                       Includes(ParentLower(ledger), misclassificationRules[r].currentlyUnder[g])
              THEN <<Issue("LEDGER_MISCLASS_" \o ledger.NAME, "Ledger Classification", "Medium",
                           <<ledger.NAME>>, TRUE,
                           [type |-> "regroup_ledger",
                            targetName |-> ledger.NAME,
                            changes |-> [parent |-> misclassificationRules[r].shouldBeUnder]])>>
              ELSE <<>>])

\* The loop over i building duplicateGroups; st = [groups, checked].
RECURSIVE DuplicateLoop(_, _, _)
DuplicateLoop(st, ledgerNames, i) ==
    IF i > Len(ledgerNames) THEN st.groups
    ELSE IF ledgerNames[i].normalized \in st.checked
    THEN DuplicateLoop(st, ledgerNames, i + 1)
    ELSE LET similarAt == [j \in 1..Len(ledgerNames) |->
                              j # i /\ isSimilarName(ledgerNames[i].normalized,
                                                     ledgerNames[j].normalized)]
             similar == Concat([j \in 1..Len(ledgerNames) |->
                                  IF similarAt[j] THEN <<ledgerNames[j]>> ELSE <<>>])
         IN IF Len(similar) > 0
            THEN DuplicateLoop(
                   [groups |-> Append(st.groups,
                                      <<ledgerNames[i].name>>
                                         \o [k \in 1..Len(similar) |-> similar[k].name]),
                    checked |-> st.checked \cup {ledgerNames[i].normalized}
                                   \cup {similar[k].normalized : k \in 1..Len(similar)}],
                   ledgerNames, i + 1)
            ELSE DuplicateLoop(st, ledgerNames, i + 1)

DuplicateGroups(ledgers) ==
    DuplicateLoop([groups |-> <<>>, checked |-> {}],
                  [i \in 1..Len(ledgers) |->
                     [name |-> ledgers[i].NAME, normalized |-> Normalized(ledgers[i].NAME)]],
                  1)

AuditLedgerClassification(response) ==
    IF ~response.success THEN <<>>
    ELSE LET ledgers == response.data
             suspenseLedgers == SelectSeq(ledgers, LAMBDA l : Includes(ParentLower(l), "suspense"))
             duplicateGroups == DuplicateGroups(ledgers)
         IN Concat([i \in 1..Len(suspenseLedgers) |-> SuspenseIssues(suspenseLedgers[i])])
            \o Concat([i \in 1..Len(ledgers) |-> MisclassIssues(ledgers[i])])
            \o [g \in 1..Len(duplicateGroups) |->
                  NoFix("LEDGER_DUPLICATE_" \o duplicateGroups[g][1], "Ledger Classification",
                        "Medium", duplicateGroups[g])]

(***************************************************************************)
(* ConfigAuditTools.auditPartyMasters                                      *)
(***************************************************************************)
ListIssue(id, category, severity, items, limit) ==
    IF Len(items) > 0 THEN <<NoFix(id, category, severity, Slice(items, limit))>> ELSE <<>>

AuditPartyMasters(response) ==
    IF ~response.success THEN <<>>
    ELSE LET ledgers == response.data
             HasBalance(l) == Abs(l.CLOSINGBALANCE) > 0
             NoGst(l) == ~Truthy(l.PARTYGSTIN) /\ ~Truthy(l.GSTREGISTRATIONTYPE)
             debtors == SelectSeq(ledgers, LAMBDA l : Includes(ParentLower(l), "sundry debtor"))
             creditors == SelectSeq(ledgers, LAMBDA l : Includes(ParentLower(l), "sundry creditor"))
             debtorsWithoutGSTIN ==
                 Names(SelectSeq(debtors, LAMBDA l : HasBalance(l) /\ NoGst(l)))
             debtorsWithoutState ==
                 Names(SelectSeq(debtors, LAMBDA l : HasBalance(l) /\ ~Truthy(l.LEDGERSTATENAME)))
             creditorsWithoutGSTIN ==
                 Names(SelectSeq(creditors, LAMBDA l : HasBalance(l) /\ NoGst(l)))
             invalid ==
                 SelectSeq(creditors, LAMBDA l : /\ HasBalance(l)
                                                 /\ ~NoGst(l)
                                                 /\ Truthy(l.PARTYGSTIN)
                                                 /\ ~isValidGSTIN(l.PARTYGSTIN))
             creditorsWithInvalidGSTIN ==
                 [i \in 1..Len(invalid) |-> invalid[i].NAME \o " (" \o invalid[i].PARTYGSTIN \o ")"]
         IN ListIssue("PARTY_DEBTORS_NO_GSTIN", "Party Master", "High", debtorsWithoutGSTIN, 15)
            \o ListIssue("PARTY_DEBTORS_NO_STATE", "Party Master", "Medium", debtorsWithoutState, 15)
            \o ListIssue("PARTY_CREDITORS_NO_GSTIN", "Party Master", "High",
                         creditorsWithoutGSTIN, 15)
            \o ListIssue("PARTY_CREDITORS_INVALID_GSTIN", "Party Master", "Critical",
                         creditorsWithInvalidGSTIN, 15)

(***************************************************************************)
(* ConfigAuditTools.auditStockItems                                        *)
(***************************************************************************)
\* GSTRATE is "" when the item has no rate; a rate of 0 is the string "0".
AuditStockItems(response) ==
    IF ~response.success THEN <<>>
    ELSE LET stockItems == response.data
             itemsWithoutHSN == Names(SelectSeq(stockItems, LAMBDA it : ~Truthy(it.HSNCODE)))
             itemsWithoutGSTRate == Names(SelectSeq(stockItems, LAMBDA it : ~Truthy(it.GSTRATE)))
             itemsWithoutUnit == Names(SelectSeq(stockItems, LAMBDA it : ~Truthy(it.BASEUNITS)))
         IN ListIssue("STOCK_NO_HSN", "Stock Item", "High", itemsWithoutHSN, 20)
            \o ListIssue("STOCK_NO_GST_RATE", "Stock Item", "High", itemsWithoutGSTRate, 20)
            \o ListIssue("STOCK_NO_UNIT", "Stock Item", "Medium", itemsWithoutUnit, 20)

(***************************************************************************)
(* ConfigAuditTools: scores and report                                     *)
(***************************************************************************)
CountSeverity(issues, severity) ==
    Len(SelectSeq(issues, LAMBDA i : i.severity = severity))

\* Faulty variant: the category score computed with the weights of the
\* overall score.
calculateCategoryScore_OverallWeights(issues, categoryName) ==
    LET critical == CountSeverity(issues, "Critical")
        high == CountSeverity(issues, "High")
        medium == CountSeverity(issues, "Medium")
        low == CountSeverity(issues, "Low")
        score == Max(0, 100 - (critical * 15) - (high * 8) - (medium * 3) - (low * 1))
    IN [score |-> score,
        status |-> IF score >= 80 THEN "Good"
                   ELSE IF score >= 50 THEN "Needs Attention" ELSE "Critical",
        issueCount |-> Len(issues),
        summary |-> categoryName]

calculateCategoryScore(issues, categoryName) ==
    LET critical == CountSeverity(issues, "Critical")
        high == CountSeverity(issues, "High")
        medium == CountSeverity(issues, "Medium")
        low == CountSeverity(issues, "Low")
        score == Max(0, 100 - (critical * 20) - (high * 10) - (medium * 5) - (low * 2))
    IN [score |-> score,
        status |-> IF score >= 80 THEN "Good"
                   ELSE IF score >= 50 THEN "Needs Attention" ELSE "Critical",
        issueCount |-> Len(issues),
        summary |-> IF Len(issues) = 0
                    THEN categoryName \o " configuration looks good!"
                    ELSE "Found " \o ToString(Len(issues)) \o " issue(s): "
                         \o ToString(critical) \o " critical, " \o ToString(high) \o " high, "
                         \o ToString(medium) \o " medium, " \o ToString(low) \o " low"]

generateRecommendations(issues) ==
    LET criticalIssues == CountSeverity(issues, "Critical")
        InCategory(c) == \E i \in 1..Len(issues) : issues[i].category = c
        autoFixable == Len(SelectSeq(issues, LAMBDA i : i.autoFixable))
        recommendations ==
            (IF criticalIssues > 0
             THEN <<"Address " \o ToString(criticalIssues) \o " CRITICAL issues immediately">>
             ELSE <<>>)
            \o (IF InCategory("GST") THEN <<"Review and configure all GST ledgers">> ELSE <<>>)
            \o (IF InCategory("TDS") THEN <<"Enable TDS on expense ledgers">> ELSE <<>>)
            \o (IF InCategory("Party Master") THEN <<"Update party masters">> ELSE <<>>)
            \o (IF InCategory("Stock Item") THEN <<"Configure HSN codes and GST rates">> ELSE <<>>)
            \o (IF autoFixable > 0
                THEN <<ToString(autoFixable) \o " issues can be auto-fixed">>
                ELSE <<>>)
    IN IF Len(recommendations) = 0
       THEN <<"Great! Your Tally configuration looks good">>
       ELSE recommendations

\* Faulty variant: a category that came back empty aborts the whole audit.
AuditReport_AbortOnEmpty(selected, today, r) ==
    [success |-> FALSE, error |-> "Audit failed: " \o selected \o today
                                     \o ToString(Len(r.gst))]

\* Faulty variant: the month of the audit leaks into the overall score.
AuditReport_ScoreByMonth(selected, today, r) ==
    LET issues == r.companyInfo \o r.gst \o r.tds \o r.ledgerClassification
                     \o r.partyMaster \o r.stockItems
    IN [success |-> TRUE,
        data |-> [companyName |-> selected,
                  auditDate |-> today,
                  overallScore |-> IF SubSeq(today, 6, 7) = "03" THEN 100 ELSE 0,
                  totalIssues |-> Len(issues),
                  categories |-> [c \in Categories |-> calculateCategoryScore(r[c], c)],
                  issues |-> issues]]

\* Faulty variant: the overall score computed with the weights of the
\* category score.
AuditReport_CategoryWeights(selected, today, r) ==
    LET issues == r.companyInfo \o r.gst \o r.tds \o r.ledgerClassification
                     \o r.partyMaster \o r.stockItems
        criticalCount == CountSeverity(issues, "Critical")
        highCount == CountSeverity(issues, "High")
        mediumCount == CountSeverity(issues, "Medium")
        lowCount == CountSeverity(issues, "Low")
    IN [success |-> TRUE,
        data |-> [companyName |-> selected,
                  auditDate |-> today,
                  overallScore |-> Max(0, 100 - criticalCount * 20 - highCount * 10
                                            - mediumCount * 5 - lowCount * 2),
                  totalIssues |-> Len(issues),
                  criticalIssues |-> criticalCount,
                  highIssues |-> highCount,
                  mediumIssues |-> mediumCount,
                  lowIssues |-> lowCount,
                  categories |-> [c \in Categories |-> calculateCategoryScore(r[c], c)],
                  issues |-> issues]]

\* The report built by runFullAudit from the six resolved category results.
AuditReport(selected, today, r) ==
    LET issues == r.companyInfo \o r.gst \o r.tds \o r.ledgerClassification
                     \o r.partyMaster \o r.stockItems
        criticalCount == CountSeverity(issues, "Critical")
        highCount == CountSeverity(issues, "High")
        mediumCount == CountSeverity(issues, "Medium")
        lowCount == CountSeverity(issues, "Low")
        score == Max(0, 100 - criticalCount * 15 - highCount * 8 - mediumCount * 3 - lowCount * 1)
    IN [success |-> TRUE,
        data |-> [companyName |-> selected,
                  auditDate |-> today,
                  overallScore |-> score,
                  totalIssues |-> Len(issues),
                  criticalIssues |-> criticalCount,
                  highIssues |-> highCount,
                  mediumIssues |-> mediumCount,
                  lowIssues |-> lowCount,
                  categories |->
                      [gst |-> calculateCategoryScore(r.gst, "GST"),
                       tds |-> calculateCategoryScore(r.tds, "TDS"),
                       ledgerClassification |->
                           calculateCategoryScore(r.ledgerClassification, "Ledger Classification"),
                       partyMaster |-> calculateCategoryScore(r.partyMaster, "Party Master"),
                       stockItems |-> calculateCategoryScore(r.stockItems, "Stock Items"),
                       companyInfo |-> calculateCategoryScore(r.companyInfo, "Company Info")],
                  issues |-> issues,
                  recommendations |-> generateRecommendations(issues)]]

(***************************************************************************)
(* ConfigAuditTools.runFullAudit                                           *)
(***************************************************************************)
\* The response each category audit receives from its own data fetch.
Fetch(ok, data) == IF ok THEN [success |-> TRUE, data |-> data]
                         ELSE [success |-> FALSE, data |-> <<>>]

\* The promise of category c resolved against the masters t.
CategoryAudit(c, t, selected, ok) ==
    CASE c = "companyInfo" -> AuditCompanyInfo(Fetch(ok, t.companies), selected)
      [] c = "gst" -> AuditGSTConfiguration(Fetch(ok, t.ledgers))
      [] c = "tds" -> AuditTDSConfiguration(Fetch(ok, t.ledgers))
      [] c = "ledgerClassification" -> AuditLedgerClassification(Fetch(ok, t.ledgers))
      [] c = "partyMaster" -> AuditPartyMasters(Fetch(ok, t.ledgers))
      [] c = "stockItems" -> AuditStockItems(Fetch(ok, t.stockItems))

\* The order of the promises handed to Promise.all.
CategoryOrder ==
    <<"companyInfo", "gst", "tds", "ledgerClassification", "partyMaster", "stockItems">>

\* Promise.all keeps each result at the position of its promise.
Resolve(sl, pend, c, issues) == [sl EXCEPT ![c] = issues]

NoCompanySelected ==
    [success |-> FALSE, error |-> "No company selected. Please select a company first."]

\* runFullAudit run to completion against fixed masters and fetch outcomes.
RunFullAudit(t, selected, ok, today) ==
    IF selected = "" THEN NoCompanySelected
    ELSE AuditReport(selected, today,
                     [c \in Categories |-> CategoryAudit(c, t, selected, ok[c])])

(***************************************************************************)
(* Masters the audit runs against                                          *)
(***************************************************************************)
Ledger(name, parent) ==
    [NAME |-> name, PARENT |-> parent, CLOSINGBALANCE |-> 0,
     ISTDSAPPLICABLE |-> "", INCOMETAXNUMBER |-> "", TDSDEDUCTEETYPE |-> "",
     PARTYGSTIN |-> "", GSTREGISTRATIONTYPE |-> "", LEDGERSTATENAME |-> "",
     GSTAPPLICABLE |-> "", ISTAXABLE |-> ""]

Party(name, parent, balance, gstin, pan) ==
    [Ledger(name, parent) EXCEPT !.CLOSINGBALANCE = balance,
                                 !.PARTYGSTIN = gstin,
                                 !.INCOMETAXNUMBER = pan]

Company(name, gstin, pan, tan, state) ==
    [name |-> name, gstNumber |-> gstin, panNumber |-> pan, tanNumber |-> tan, state |-> state]

StockItem(name, hsn, rate, unit) ==
    [NAME |-> name, HSNCODE |-> hsn, GSTRATE |-> rate, BASEUNITS |-> unit]

GstLedgers ==
    <<Ledger("Output IGST", "Duties & Taxes"), Ledger("CGST Payable", "Duties & Taxes"),
      Ledger("Input SGST", "Duties & Taxes")>>

LedgerSets ==
    <<  \* 1: no ledgers at all
        <<>>,
        \* 2: three of the six GST ledgers in place
        GstLedgers,
        \* 3: a name that meets two misclassification rules, and one that meets one
        <<Ledger("Rent Income & Interest Income", "Sales Accounts"),
          Ledger("Salary", "Direct Expenses")>>,
        \* 4: an ambiguous GST ledger and a GST ledger outside Duties & Taxes
        <<Ledger("GST Payable", "Duties & Taxes"),
          Ledger("Output CGST", "Taxes Payable"),
          [Ledger("Sales GST 18", "Sales Accounts") EXCEPT !.GSTAPPLICABLE = "Applicable"]>>,
        \* 5: parties with and without statutory details
        <<Party("Acme Traders", "Sundry Creditors", -50000000, "", ""),
          Party("Bolt Supplies", "Sundry Creditors", -1000000, "27ABCDE1234F1Z", "ABCDE1234F"),
          Party("Zed Retail", "Sundry Debtors", 2500000, "", "")>>,
        \* 6: a suspense balance and two look-alike names
        <<[Ledger("Unknown Receipts", "Suspense A/c") EXCEPT !.CLOSINGBALANCE = 1200000],
          Ledger("ABC Traders", "Sundry Debtors"),
          Ledger("ABC Traders Ltd", "Sundry Debtors")>>,
        \* 7: expenses liable to TDS
        <<Ledger("Professional Fees", "Indirect Expenses"),
          [Ledger("Office Rent", "Indirect Expenses") EXCEPT !.ISTDSAPPLICABLE = "Yes"],
          Ledger("TDS on Rent", "Duties & Taxes")>>,
        \* 8: Output CGST as the only GST ledger
        <<Ledger("Output CGST", "Duties & Taxes")>>,
        \* 9: a GST ledger kept among the expenses
        <<Ledger("Output CGST", "Indirect Expenses")>>,
        \* 10: one party entered twice, the names differing in punctuation only
        <<Ledger("ABC Traders", "Sundry Debtors"),
          Ledger("A.B.C. Traders", "Sundry Debtors")>>  >>

CompanySets ==
    <<  <<Company("Demo Co", "27ABCDE1234F1Z5", "ABCDE1234F", "MUMA12345B", "Maharashtra")>>,
        <<Company("Demo Co", "", "ABCDE1234", "", "Maharashtra")>>,
        <<Company("Other Co", "27ABCDE1234F1Z5", "ABCDE1234F", "MUMA12345B", "Goa")>>  >>

StockSets ==
    <<  <<>>,
        <<StockItem("Widget", "8471", "18", "Nos")>>,
        <<StockItem("Gadget", "", "", "Nos"), StockItem("Gizmo", "8517", "0", "")>>  >>

\* Masters of the external system: every ledger set, with the company and
\* stock masters rotating through their variants.
Snapshots ==
    {[ledgers |-> LedgerSets[i],
      companies |-> CompanySets[((i - 1) % Len(CompanySets)) + 1],
      stockItems |-> StockSets[((i + 1) % Len(StockSets)) + 1]] : i \in 1..Len(LedgerSets)}

SelectedCompanies == {"Demo Co", ""}

AuditDates == {"2024-03-31", "2024-04-01"}

MaxRuns == 2

InitAudit ==
    /\ tally \in Snapshots
    /\ companyName \in SelectedCompanies
    /\ avail \in [Categories -> BOOLEAN]
    /\ phase = "idle"
    /\ promises = NoSlots
    /\ pending = {}
    /\ slots = NoSlots
    /\ auditDate = ""
    /\ report = None
    /\ previousReport = None
    /\ runs = 0
    /\ IdleRecon
    /\ IdleGst
    /\ IdleAging
    /\ IdleFix
    /\ IdleRest

\* runFullAudit up to `await Promise.all([...])`: all six audits are started,
\* each sends its request and is served from the masters as they are now.
RunFullAuditCall ==
    /\ phase # "awaiting"
    /\ runs < MaxRuns
    /\ runs' = runs + 1
    /\ previousReport' = report
    /\ slots' = NoSlots
    /\ auditDate' = ""
    /\ IF companyName = ""
       THEN /\ report' = NoCompanySelected
            /\ phase' = "returned"
            /\ promises' = NoSlots
            /\ pending' = {}
       ELSE /\ report' = None
            /\ phase' = "awaiting"
            /\ promises' = [c \in Categories |->
                               CategoryAudit(c, tally, companyName, avail[c])]
            /\ pending' = Categories
    /\ UNCHANGED <<tally, companyName, avail, reconVars, gstVars, agingVars, fixVars, restVars>>

\* The promise of category c resolves: its audit has returned its issues.
CategoryResolved(c) ==
    /\ phase = "awaiting"
    /\ c \in pending
    /\ slots' = Resolve(slots, pending, c, promises[c])
    /\ pending' = pending \ {c}
    /\ UNCHANGED <<tally, companyName, avail, phase, promises, auditDate, report, previousReport, runs,
                   reconVars, gstVars, agingVars, fixVars, restVars>>

\* runFullAudit after Promise.all has resolved: scores and report.
RunFullAuditReturn ==
    /\ phase = "awaiting"
    /\ pending = {}
    /\ \E today \in AuditDates :
          /\ auditDate' = today
          /\ report' = AuditReport(companyName, today, slots)
    /\ phase' = "returned"
    /\ UNCHANGED <<tally, companyName, avail, promises, pending, slots, previousReport, runs,
                   reconVars, gstVars, agingVars, fixVars, restVars>>

NextAudit ==
    \/ RunFullAuditCall
    \/ \E c \in Categories : CategoryResolved(c)
    \/ RunFullAuditReturn

SpecAudit == InitAudit /\ [][NextAudit]_vars

(***************************************************************************)
(* Properties of runFullAudit                                              *)
(***************************************************************************)
AuditReturned == phase = "returned" /\ runs > 0 /\ companyName # ""

\* The name runFullAudit passes to calculateCategoryScore for each category.
CategoryTitle ==
    [gst |-> "GST", tds |-> "TDS", ledgerClassification |-> "Ledger Classification",
     partyMaster |-> "Party Master", stockItems |-> "Stock Items",
     companyInfo |-> "Company Info"]

\* What category c contributes: its issues against the masters when its
\* fetch succeeds, nothing when its fetch fails.
ExpectedOf(c) == IF avail[c] THEN CategoryAudit(c, tally, companyName, TRUE) ELSE <<>>

ExpectedIssues == Concat([i \in 1..Len(CategoryOrder) |-> ExpectedOf(CategoryOrder[i])])

\* C4: when the data fetch of a category fails, the category's entry in the
\* report differs from the entry of a category that was evaluated and found
\* clean (score 100, status 'Good', '<name> configuration looks good!').
C4_FailedCategoryDistinguishable ==
    (AuditReturned /\ report.success) =>
        \A c \in Categories :
            ~avail[c] =>
                report.data.categories[c] # calculateCategoryScore(<<>>, CategoryTitle[c])

\* C5: with a company selected, runFullAudit returns a successful report for
\* every combination of failed and successful category fetches; the report
\* carries, in code order, the issues of every category whose fetch
\* succeeded, and a score for each of the six categories.
C5_FullReportForEveryFetchOutcome ==
    AuditReturned =>
        /\ report.success
        /\ report.data.issues = ExpectedIssues
        /\ report.data.totalIssues = Len(ExpectedIssues)
        /\ DOMAIN report.data.categories = Categories
        /\ \A c \in Categories :
              report.data.categories[c].issueCount = Len(ExpectedOf(c))

\* A run returned with one fetch failed, and the report still carries the
\* issues of another category.
C5_Witness ==
    /\ AuditReturned
    /\ report.success
    /\ ~avail["gst"]
    /\ avail["tds"]
    /\ \E i \in 1..Len(report.data.issues) : report.data.issues[i].category = "TDS"
    /\ report.data.categories["gst"].issueCount = 0

\* C6: within one run no two issues of the returned list carry the same id,
\* whenever the ledgers have distinct names.
C6_IssueIdsUnique ==
    (/\ AuditReturned
     /\ report.success
     /\ \A i, j \in 1..Len(tally.ledgers) :
           i # j => tally.ledgers[i].NAME # tally.ledgers[j].NAME)
    => \A i, j \in 1..Len(report.data.issues) :
          i # j => report.data.issues[i].id # report.data.issues[j].id

OnlyOutputCGST ==
    LET gstLedgers == SelectSeq(tally.ledgers, LAMBDA l : Includes(NameLower(l), "gst"))
    IN /\ Len(gstLedgers) = 1
       /\ gstLedgers[1].NAME = "Output CGST"
       /\ gstLedgers[1].PARENT = "Duties & Taxes"

EndsWith(s, suffix) ==
    Len(s) >= Len(suffix) /\ SubSeq(s, Len(s) - Len(suffix) + 1, Len(s)) = suffix

\* The issues of the report raised by the GST ledger presence rules.
GstPresenceIssues ==
    SelectSeq(report.data.issues,
              LAMBDA i : i.category = "GST" /\ EndsWith(i.id, "_MISSING"))

\* The audit has returned a report on masters whose only GST ledger is
\* Output CGST, its GST fetch having succeeded.
OutputCGSTAudited == AuditReturned /\ report.success /\ avail["gst"] /\ OnlyOutputCGST

\* C16 as stated: exactly two Critical presence issues, OUTPUT_IGST_MISSING
\* and OUTPUT_SGST_MISSING, both auto-fixable.
C16_ExactlyTwoPresenceIssues ==
    OutputCGSTAudited =>
        /\ Len(GstPresenceIssues) = 2
        /\ {GstPresenceIssues[k].id : k \in 1..Len(GstPresenceIssues)}
              = {"GST_OUTPUT_IGST_MISSING", "GST_OUTPUT_SGST_MISSING"}
        /\ \A k \in 1..Len(GstPresenceIssues) :
              GstPresenceIssues[k].severity = "Critical" /\ GstPresenceIssues[k].autoFixable

\* C16 (amended): with Output CGST as the only GST ledger the audit emits
\* exactly five presence issues, one for each of the other five required
\* GST ledgers (Output IGST, Output SGST, Input IGST, Input CGST, Input
\* SGST), all Critical and auto-fixable by a create_ledger action.
C16_FivePresenceIssues ==
    OutputCGSTAudited =>
        /\ [k \in 1..Len(GstPresenceIssues) |-> GstPresenceIssues[k].id]
              = <<"GST_OUTPUT_IGST_MISSING", "GST_OUTPUT_SGST_MISSING",
                  "GST_INPUT_IGST_MISSING", "GST_INPUT_CGST_MISSING",
                  "GST_INPUT_SGST_MISSING">>
        /\ \A k \in 1..Len(GstPresenceIssues) :
              /\ GstPresenceIssues[k].severity = "Critical"
              /\ GstPresenceIssues[k].autoFixable
              /\ GstPresenceIssues[k].fixAction.type = "create_ledger"

\* Such an audit has returned, with Critical issues in its report.
C16_Witness ==
    /\ OutputCGSTAudited
    /\ Len(tally.ledgers) = 1
    /\ report.data.criticalIssues >= 2

StartsWith(s, prefix) == Len(s) >= Len(prefix) /\ SubSeq(s, 1, Len(prefix)) = prefix

\* The misclassification issues of the report.
MisclassReported ==
    SelectSeq(report.data.issues, LAMBDA i : StartsWith(i.id, "LEDGER_MISCLASS_"))

\* C21: a misclassification issue is reported only for a ledger that is not
\* under the group its rule requires: no ledger that already sits under the
\* group the issue suggests (Salary under Indirect Expenses, Rent Received
\* under Indirect Incomes) gets a LEDGER_MISCLASS issue.
C21_NoMisclassUnderTargetGroup ==
    (AuditReturned /\ report.success) =>
        \A k \in 1..Len(MisclassReported) :
            \A l \in 1..Len(tally.ledgers) :
                tally.ledgers[l].NAME = MisclassReported[k].fixAction.targetName
                    => tally.ledgers[l].PARENT # MisclassReported[k].fixAction.changes.parent

\* Ledgers of the masters named as a component of GST and kept outside the
\* Duties & Taxes group.
GstLedgersOutsideDuties ==
    SelectSeq(tally.ledgers,
              LAMBDA l : /\ \/ Includes(NameLower(l), "igst")
                            \/ Includes(NameLower(l), "cgst")
                            \/ Includes(NameLower(l), "sgst")
                         /\ l.PARENT # "Duties & Taxes")

StatedSimilar(n1, n2) ==
    \/ Includes(n1, n2)
    \/ Includes(n2, n1)
    \/ /\ 5 * levenshteinDistance(n1, n2) < Max(Len(n1), Len(n2))
       /\ Len(n1) > 5
       /\ Len(n2) > 5

DuplicateReported ==
    SelectSeq(report.data.issues, LAMBDA i : StartsWith(i.id, "LEDGER_DUPLICATE_"))

\* Ledgers a and b of the masters are listed together by one duplicate issue.
FlaggedTogether(a, b) ==
    \E k \in 1..Len(DuplicateReported) :
        {tally.ledgers[a].NAME, tally.ledgers[b].NAME}
            \subseteq Range(DuplicateReported[k].affectedItems)

\* C23: two distinct ledgers are flagged as potential duplicates whenever their
\* normalized names contain one another (identical normalized names included)
\* or are more than 0.8 similar with both longer than 5 characters, and only
\* then; a duplicate issue is never auto-fixable.
C23_DuplicateRule ==
    (AuditReturned /\ report.success /\ avail["ledgerClassification"]) =>
        /\ \A a, b \in 1..Len(tally.ledgers) :
              a # b => (FlaggedTogether(a, b)
                          <=> StatedSimilar(Normalized(tally.ledgers[a].NAME),
                                            Normalized(tally.ledgers[b].NAME)))
        /\ \A k \in 1..Len(DuplicateReported) : ~DuplicateReported[k].autoFixable

\* Number of issues of the given severity over the six category results.
IssuesOfAllCategories(severity) ==
    LET n(c) == Cardinality({i \in 1..Len(slots[c]) : slots[c][i].severity = severity})
    IN n("companyInfo") + n("gst") + n("tds") + n("ledgerClassification")
          + n("partyMaster") + n("stockItems")

\* 100 - 15 critical - 8 high - 3 medium - 1 low, before clamping.
OverallDeducted ==
    100 - 15 * IssuesOfAllCategories("Critical") - 8 * IssuesOfAllCategories("High")
        - 3 * IssuesOfAllCategories("Medium") - 1 * IssuesOfAllCategories("Low")

\* C12: the overall score of a report is max(0, 100 - 15 critical - 8 high
\* - 3 medium - 1 low) counted over the issues of all six categories and
\* lies in 0..100; criticalIssues + highIssues + mediumIssues + lowIssues
\* equals totalIssues, which equals the sum of the six issueCounts.
C12_OverallScoreAndCounts ==
    (AuditReturned /\ report.success) =>
        /\ report.data.overallScore = (IF OverallDeducted > 0 THEN OverallDeducted ELSE 0)
        /\ report.data.overallScore \in 0..100
        /\ report.data.criticalIssues = IssuesOfAllCategories("Critical")
        /\ report.data.criticalIssues + report.data.highIssues
              + report.data.mediumIssues + report.data.lowIssues = report.data.totalIssues
        /\ report.data.totalIssues =
              report.data.categories["companyInfo"].issueCount
                + report.data.categories["gst"].issueCount
                + report.data.categories["tds"].issueCount
                + report.data.categories["ledgerClassification"].issueCount
                + report.data.categories["partyMaster"].issueCount
                + report.data.categories["stockItems"].issueCount

\* A report whose deductions exceed 100 (clamped to 0), and one category of
\* which has issues of two severities.
C12_Witness ==
    /\ AuditReturned
    /\ report.success
    /\ OverallDeducted < 0
    /\ report.data.overallScore = 0
    /\ report.data.highIssues > 0
    /\ report.data.mediumIssues > 0

(***************************************************************************)
(* ConfigAuditTools.applyFix / applyMultipleFixes                          *)
(***************************************************************************)
\* TallyConnection.executeRequest never throws: a rejected or failed request
\* comes back as an unsuccessful response.
executeRequest(ok) ==
    IF ok THEN [success |-> TRUE]
    ELSE [success |-> FALSE, error |-> "Tally request failed"]

\* Index of the ledger called name, 0 when there is none.
LedgerIndex(ledgers, name) ==
    LET found == {i \in 1..Len(ledgers) : ledgers[i].NAME = name}
    IN IF found = {} THEN 0 ELSE CHOOSE i \in found : \A j \in found : i <= j

\* The masters after the external system has accepted the request that
\* executeFixAction builds for the action.
AcceptedBy(t, action) ==
    LET at == LedgerIndex(t.ledgers, action.targetName)
    IN CASE action.type = "create_ledger" ->
              IF at = 0
              THEN [t EXCEPT !.ledgers = Append(@, Ledger(action.targetName,
                                                          action.changes.parent))]
              ELSE t
         [] action.type = "regroup_ledger" ->
              IF at = 0 THEN t
              ELSE [t EXCEPT !.ledgers[at].PARENT = action.changes.parent]
         [] action.type = "update_tds_details" ->
              IF at = 0 THEN t
              ELSE [t EXCEPT !.ledgers[at].ISTDSAPPLICABLE = "Yes"]
         [] action.type = "update_gst_details" ->
              IF at = 0 THEN t
              ELSE [t EXCEPT !.ledgers[at].GSTAPPLICABLE = "Applicable"]
         [] action.type = "rename_ledger" ->
              IF at = 0 THEN t
              ELSE [t EXCEPT !.ledgers[at].NAME = action.changes.newName]
         [] OTHER -> t

FixActionTypes ==
    {"create_ledger", "regroup_ledger", "rename_ledger", "update_gst_details",
     "update_tds_details"}

\* Faulty variant: the fix is sent whatever the audit says about the issue.
ApplyFix_WithoutLookup(auditResult, t, issueId, mutationOk) ==
    [response |-> [success |-> TRUE,
                   data |-> [issueId |-> issueId,
                             fixAction |-> NoFixAction,
                             result |-> executeRequest(mutationOk)]],
     tally |-> t,
     mutation |-> [sent |-> TRUE, issueId |-> issueId, action |-> NoFixAction,
                   response |-> executeRequest(mutationOk)]]

\* applyFix after `await this.runFullAudit()`: the response, the masters
\* afterwards and the mutation request it sent, if any.
ApplyFix(auditResult, t, issueId, mutationOk) ==
    LET unsent(response) == [response |-> response, tally |-> t, mutation |-> NoMutation]
    IN IF ~auditResult.success THEN unsent(auditResult)
       ELSE LET issues == auditResult.data.issues
                found == {i \in 1..Len(issues) : issues[i].id = issueId}
            IN IF found = {}
               THEN unsent([success |-> FALSE,
                            error |-> "Issue with ID \"" \o issueId \o "\" not found"])
               ELSE LET issue == issues[CHOOSE i \in found : \A j \in found : i <= j]
                    IN IF ~issue.autoFixable \/ issue.fixAction = NoFixAction
                       THEN unsent([success |-> FALSE,
                                    error |-> "Issue \"" \o issueId
                                                 \o "\" is not auto-fixable"])
                       ELSE IF issue.fixAction.type \notin FixActionTypes
                       THEN unsent([success |-> FALSE,
                                    error |-> "Failed to apply fix: Unknown fix action type: "
                                                 \o issue.fixAction.type])
                       ELSE LET result == executeRequest(mutationOk)
                            IN [response |->
                                    [success |-> TRUE,
                                     data |-> [issueId |-> issueId,
                                               fixAction |-> issue.fixAction,
                                               result |-> result]],
                                tally |-> IF mutationOk THEN AcceptedBy(t, issue.fixAction)
                                                        ELSE t,
                                mutation |-> [sent |-> TRUE,
                                              issueId |-> issueId,
                                              action |-> issue.fixAction,
                                              response |-> result]]

\* Faulty variant: the preview carries out the fix it describes.
PreviewFix_Applies(auditResult, t, issueId) ==
    LET applied == ApplyFix(auditResult, t, issueId, TRUE)
    IN [applied EXCEPT !.response =
           IF applied.response.success
           THEN [success |-> TRUE,
                 data |-> [preview |-> [action |-> applied.response.data.fixAction.type,
                                        target |-> applied.response.data.fixAction.targetName,
                                        changes |-> applied.response.data.fixAction.changes]]]
           ELSE applied.response]

\* previewFix after `await this.runFullAudit()`: the response, the masters
\* afterwards and the mutation request it sent, if any.
PreviewFix(auditResult, t, issueId) ==
    LET unsent(response) == [response |-> response, tally |-> t, mutation |-> NoMutation]
    IN IF ~auditResult.success THEN unsent(auditResult)
       ELSE LET issues == auditResult.data.issues
                found == {i \in 1..Len(issues) : issues[i].id = issueId}
            IN IF found = {}
               THEN unsent([success |-> FALSE,
                            error |-> "Issue with ID \"" \o issueId \o "\" not found"])
               ELSE LET issue == issues[CHOOSE i \in found : \A j \in found : i <= j]
                    IN IF ~issue.autoFixable \/ issue.fixAction = NoFixAction
                       THEN unsent([success |-> FALSE,
                                    error |-> "Issue \"" \o issueId
                                                 \o "\" is not auto-fixable"])
                       ELSE unsent([success |-> TRUE,
                                    data |-> [issue |-> issue,
                                              preview |->
                                                 [action |-> issue.fixAction.type,
                                                  target |-> issue.fixAction.targetName,
                                                  changes |-> issue.fixAction.changes]]])

\* Faulty variant: the loop of applyMultipleFixes stops at the first error.
LoopEnds_AtFirstError(call, response) ==
    call.i = Len(call.issueIds) \/ ~response.success

\* `for (const issueId of issueIds)`: the loop ends after the last id,
\* whatever applyFix returned for it.
LoopEnds(call, response) == call.i = Len(call.issueIds)

\* The response of applyMultipleFixes once its loop has ended.
BatchResponse(results, errors) ==
    [success |-> Len(errors) = 0,
     data |-> [successCount |-> Len(results),
               errorCount |-> Len(errors),
               results |-> results,
               errors |-> errors]]

(***************************************************************************)
(* Calls of applyFix and applyMultipleFixes                                *)
(***************************************************************************)
MaxFixCalls == 2

MaxBatch == 2

\* Masters with auto-fixable issues of every kind the audit produces.
FixSnapshots ==
    {[ledgers |-> LedgerSets[i], companies |-> CompanySets[1], stockItems |-> StockSets[1]] :
        i \in {3, 4, 7}}

\* The issue ids a caller passes: for each kind of fix action (and for the
\* issues without one) the first issue the audit lists, and an unknown id.
IssueIdInputs(auditResult) ==
    LET issues == IF auditResult.success THEN auditResult.data.issues ELSE <<>>
    IN {"NO_SUCH_ISSUE"}
          \cup {issues[i].id : i \in {k \in 1..Len(issues) :
                    \A j \in 1..(k - 1) : issues[j].fixAction.type # issues[k].fixAction.type}}

InitFix ==
    /\ tally \in FixSnapshots
    /\ companyName = "Demo Co"
    /\ avail \in {[c \in Categories |-> TRUE], [c \in Categories |-> c # "stockItems"]}
    /\ phase = "idle"
    /\ promises = NoSlots
    /\ pending = {}
    /\ slots = NoSlots
    /\ auditDate = "2024-03-31"
    /\ report = None
    /\ previousReport = None
    /\ runs = 0
    /\ IdleRecon
    /\ IdleGst
    /\ IdleAging
    /\ IdleFix
    /\ IdleRest

FixFrame ==
    UNCHANGED <<companyName, avail, phase, promises, pending, slots, auditDate,
                previousReport, runs, reconVars, gstVars, agingVars, restVars>>

\* applyFix(issueId) up to the return of its runFullAudit.
ApplyFixCall ==
    /\ fixCall.pc \in {"idle", "returned"}
    /\ fixCalls < MaxFixCalls
    /\ report' = RunFullAudit(tally, companyName, avail, auditDate)
    /\ \E issueId \in IssueIdInputs(report') :
          fixCall' = [op |-> "applyFix", issueIds |-> <<issueId>>, i |-> 1, pc |-> "audited",
                      results |-> <<>>, errors |-> <<>>, attempted |-> <<>>,
                      before |-> tally]
    /\ fixResult' = None
    /\ mutations' = <<>>
    /\ fixCalls' = fixCalls + 1
    /\ UNCHANGED tally
    /\ FixFrame

\* applyMultipleFixes(issueIds) up to the return of the runFullAudit of its
\* first applyFix.
ApplyMultipleFixesCall ==
    /\ fixCall.pc \in {"idle", "returned"}
    /\ fixCalls < MaxFixCalls
    /\ report' = RunFullAudit(tally, companyName, avail, auditDate)
    /\ \E n \in 1..MaxBatch :
          \E issueIds \in [1..n -> IssueIdInputs(report')] :
             fixCall' = [op |-> "applyMultipleFixes", issueIds |-> issueIds, i |-> 1,
                         pc |-> "audited", results |-> <<>>, errors |-> <<>>,
                         attempted |-> <<>>, before |-> tally]
    /\ fixResult' = None
    /\ mutations' = <<>>
    /\ fixCalls' = fixCalls + 1
    /\ UNCHANGED tally
    /\ FixFrame

\* The applyFix in progress, from the return of its audit to its own return;
\* inside applyMultipleFixes its result is filed under results or errors.
ApplyFixReturn ==
    /\ fixCall.pc = "audited"
    /\ fixCall.op \in {"applyFix", "applyMultipleFixes"}
    /\ \E mutationOk \in BOOLEAN :
          LET issueId == fixCall.issueIds[fixCall.i]
              one == ApplyFix(report, tally, issueId, mutationOk)
              results == IF one.response.success
                         THEN Append(fixCall.results, one.response.data)
                         ELSE fixCall.results
              errors == IF one.response.success
                        THEN fixCall.errors
                        ELSE Append(fixCall.errors, [issueId |-> issueId,
                                                     error |-> one.response.error])
              last == LoopEnds(fixCall, one.response)
              attempted == Append(fixCall.attempted,
                                  [issueId |-> issueId, success |-> one.response.success])
          IN /\ tally' = one.tally
             /\ mutations' = IF one.mutation.sent THEN Append(mutations, one.mutation)
                                                  ELSE mutations
             /\ IF fixCall.op = "applyFix"
                THEN /\ fixResult' = one.response
                     /\ fixCall' = [fixCall EXCEPT !.attempted = attempted,
                                                   !.pc = "returned"]
                ELSE /\ fixResult' = IF last THEN BatchResponse(results, errors) ELSE None
                     /\ fixCall' = [fixCall EXCEPT !.results = results,
                                                   !.errors = errors,
                                                   !.attempted = attempted,
                                                   !.i = IF last THEN @ ELSE @ + 1,
                                                   !.pc = IF last THEN "returned" ELSE "next"]
    /\ UNCHANGED <<report, fixCalls>>
    /\ FixFrame

\* The next applyFix of the loop, up to the return of its runFullAudit.
ApplyMultipleFixesNext ==
    /\ fixCall.pc = "next"
    /\ report' = RunFullAudit(tally, companyName, avail, auditDate)
    /\ fixCall' = [fixCall EXCEPT !.pc = "audited"]
    /\ UNCHANGED <<tally, fixResult, mutations, fixCalls>>
    /\ FixFrame

\* previewFix(issueId) up to the return of its runFullAudit.
PreviewFixCall ==
    /\ fixCall.pc \in {"idle", "returned"}
    /\ fixCalls < MaxFixCalls
    /\ report' = RunFullAudit(tally, companyName, avail, auditDate)
    /\ \E issueId \in IssueIdInputs(report') :
          fixCall' = [op |-> "previewFix", issueIds |-> <<issueId>>, i |-> 1, pc |-> "audited",
                      results |-> <<>>, errors |-> <<>>, attempted |-> <<>>,
                      before |-> tally]
    /\ fixResult' = None
    /\ mutations' = <<>>
    /\ fixCalls' = fixCalls + 1
    /\ UNCHANGED tally
    /\ FixFrame

\* previewFix from the return of its audit to its own return.
PreviewFixReturn ==
    /\ fixCall.pc = "audited"
    /\ fixCall.op = "previewFix"
    /\ LET one == PreviewFix(report, tally, fixCall.issueIds[1])
       IN /\ tally' = one.tally
          /\ mutations' = IF one.mutation.sent THEN Append(mutations, one.mutation)
                                               ELSE mutations
          /\ fixResult' = one.response
    /\ fixCall' = [fixCall EXCEPT !.pc = "returned"]
    /\ UNCHANGED <<report, fixCalls>>
    /\ FixFrame

NextFix ==
    \/ ApplyFixCall
    \/ ApplyMultipleFixesCall
    \/ ApplyFixReturn
    \/ ApplyMultipleFixesNext
    \/ PreviewFixCall
    \/ PreviewFixReturn

SpecFix == InitFix /\ [][NextFix]_vars

\* applyFix has returned success and the external system has carried out the
\* one change it was sent.
FixCarriedOut ==
    /\ fixCall.op = "applyFix"
    /\ fixCall.pc = "returned"
    /\ fixResult.success
    /\ Len(mutations) = 1
    /\ mutations[1].response.success

\* The step is the runFullAudit that follows a fix carried out, and the new
\* report no longer holds the id of the issue fixed.
FixedIssueIsGone ==
    (FixCarriedOut /\ fixCall'.pc = "audited" /\ report'.success) =>
        \A k \in 1..Len(report'.data.issues) :
            report'.data.issues[k].id # fixCall.issueIds[1]

\* C29: once applyFix has succeeded for an auto-fixable issue and the external
\* system has carried out the change, the next runFullAudit on the otherwise
\* unchanged masters does not report that issue id again.
C29_FixedIssueNotReportedAgain == [][FixedIssueIsGone]_vars

FixReturned == fixCall.pc = "returned"

\* The mutation requests of the latest call that the external system
\* rejected or failed.
FailedMutations == SelectSeq(mutations, LAMBDA m : ~m.response.success)

\* C3: when the mutation request of a fix comes back unsuccessful, applyFix
\* reports the fix as an error (success = false with an error message), and
\* applyMultipleFixes counts it under errors, not under successes.
C3_FailedMutationIsReportedAsError ==
    /\ (FixReturned /\ fixCall.op = "applyFix" /\ Len(FailedMutations) > 0) =>
          (~fixResult.success /\ "error" \in DOMAIN fixResult)
    /\ (FixReturned /\ fixCall.op = "applyMultipleFixes") =>
          /\ \A k \in 1..Len(FailedMutations) :
                \E e \in 1..Len(fixResult.data.errors) :
                   fixResult.data.errors[e].issueId = FailedMutations[k].issueId
          /\ \A s \in 1..Len(fixResult.data.results) :
                fixResult.data.results[s].result.success

\* The issue the audit of the latest call reports under the id, as
\* `issues.find(i => i.id === issueId)` finds it; NoIssue when there is none.
NoIssue == [id |-> "", autoFixable |-> FALSE, fixAction |-> NoFixAction]

ReportedIssue(issueId) ==
    LET issues == IF report.success THEN report.data.issues ELSE <<>>
        found == {i \in 1..Len(issues) : issues[i].id = issueId}
    IN IF found = {} THEN NoIssue
       ELSE issues[CHOOSE i \in found : \A j \in found : i <= j]

\* The id is unknown to the audit, or the audit reports it as not
\* auto-fixable or without a fix action.
NotFixable(issueId) ==
    \/ ReportedIssue(issueId) = NoIssue
    \/ ~ReportedIssue(issueId).autoFixable
    \/ ReportedIssue(issueId).fixAction = NoFixAction

\* C13: applyFix and previewFix called with an issue id that the audit does
\* not report, or reports as not auto-fixable or without a fix action, both
\* fail with an error result and send no mutation request.
C13_NotFixableFailsWithoutMutation ==
    (/\ FixReturned
     /\ fixCall.op \in {"applyFix", "previewFix"}
     /\ NotFixable(fixCall.issueIds[1]))
    => /\ ~fixResult.success
       /\ "error" \in DOMAIN fixResult
       /\ mutations = <<>>
       /\ tally = fixCall.before

\* applyFix has returned for an issue the audit reports without a fix.
C13_Witness ==
    /\ FixReturned
    /\ fixCall.op = "applyFix"
    /\ ReportedIssue(fixCall.issueIds[1]) # NoIssue
    /\ ~ReportedIssue(fixCall.issueIds[1]).autoFixable
    /\ ~fixResult.success

\* The issue ids of the records of a batch.
IdsOf(records) == [k \in 1..Len(records) |-> records[k].issueId]

AttemptsWith(success) == SelectSeq(fixCall.attempted, LAMBDA a : a.success = success)

\* C14: applyMultipleFixes attempts every id of its list in order, whatever
\* the earlier outcomes; every attempt lands in exactly one of results and
\* errors, successCount + errorCount is the number of ids, the batch reports
\* success iff errorCount = 0, and the only mutation requests sent are those
\* of the fixes listed under results (nothing is sent to undo a fix).
C14_BatchAttemptsEveryId ==
    (FixReturned /\ fixCall.op = "applyMultipleFixes") =>
        /\ IdsOf(fixCall.attempted) = fixCall.issueIds
        /\ IdsOf(fixResult.data.results) = IdsOf(AttemptsWith(TRUE))
        /\ IdsOf(fixResult.data.errors) = IdsOf(AttemptsWith(FALSE))
        /\ fixResult.data.successCount = Len(fixResult.data.results)
        /\ fixResult.data.errorCount = Len(fixResult.data.errors)
        /\ fixResult.data.successCount + fixResult.data.errorCount = Len(fixCall.issueIds)
        /\ fixResult.success <=> (fixResult.data.errorCount = 0)
        /\ IdsOf(mutations) = IdsOf(fixResult.data.results)

\* A batch has returned whose first fix failed and whose second fix was
\* sent and accepted.
C14_Witness ==
    /\ FixReturned
    /\ fixCall.op = "applyMultipleFixes"
    /\ Len(fixCall.attempted) = 2
    /\ ~fixCall.attempted[1].success
    /\ fixCall.attempted[2].success
    /\ Len(mutations) = 1
    /\ mutations[1].response.success
    /\ tally # fixCall.before

\* C15: previewFix has no side effect: it sends no mutation request and
\* leaves the masters of the external system as they were, and the preview
\* it returns carries the type, target and changes of the issue's fix action.
C15_PreviewHasNoSideEffect ==
    (FixReturned /\ fixCall.op = "previewFix") =>
        /\ mutations = <<>>
        /\ tally = fixCall.before
        /\ fixResult.success =>
              LET fixAction == ReportedIssue(fixCall.issueIds[1]).fixAction
              IN /\ fixResult.data.preview.action = fixAction.type
                 /\ fixResult.data.preview.target = fixAction.targetName
                 /\ fixResult.data.preview.changes = fixAction.changes

\* A preview of a regroup fix was returned.
C15_Witness ==
    /\ FixReturned
    /\ fixCall.op = "previewFix"
    /\ fixResult.success
    /\ fixResult.data.preview.action = "regroup_ledger"
    /\ tally = fixCall.before

(***************************************************************************)
(* ConfigAuditTools.calculateCategoryScore on arbitrary issue lists        *)
(***************************************************************************)
MaxPerSeverity == 6

Severities == <<"Critical", "High", "Medium", "Low">>

\* n issues of one severity.
IssuesOfSeverity(severity, n) ==
    [i \in 1..n |-> Issue("ISSUE_" \o severity, "GST", severity, <<>>, FALSE, NoFixAction)]

\* The issue lists of one category: up to MaxPerSeverity issues of each severity.
IssueLists ==
    {IssuesOfSeverity("Low", n[4]) \o IssuesOfSeverity("Critical", n[1])
        \o IssuesOfSeverity("Medium", n[3]) \o IssuesOfSeverity("High", n[2]) :
            n \in [1..4 -> 0..MaxPerSeverity]}

InitScore ==
    /\ scoreIssues \in IssueLists
    /\ categoryScore = None
    /\ IdleSimilar
    /\ IdleSnapshot
    /\ IdleServer
    /\ IdleRecon
    /\ IdleGst
    /\ IdleAging
    /\ IdleAudit
    /\ IdleFix

\* calculateCategoryScore(issues, categoryName)
CalculateCategoryScoreCall ==
    /\ categoryScore = None
    /\ categoryScore' = calculateCategoryScore(scoreIssues, "GST")
    /\ UNCHANGED <<scoreIssues, reconVars, gstVars, agingVars, auditVars, fixVars, similarVars,
                   snapshotVars, serverVars>>

NextScore == CalculateCategoryScoreCall

SpecScore == InitScore /\ [][NextScore]_vars

\* Number of issues of the input list with the given severity.
NumberOf(severity) ==
    Cardinality({i \in 1..Len(scoreIssues) : scoreIssues[i].severity = severity})

\* 100 - 20 critical - 10 high - 5 medium - 2 low, before clamping.
CategoryDeducted ==
    100 - 20 * NumberOf("Critical") - 10 * NumberOf("High")
        - 5 * NumberOf("Medium") - 2 * NumberOf("Low")

\* C11: for every list of issues of one category, calculateCategoryScore
\* returns score = max(0, 100 - 20 critical - 10 high - 5 medium - 2 low),
\* which lies in 0..100, with status 'Good' iff score >= 80, 'Needs
\* Attention' iff 50 <= score < 80 and 'Critical' iff score < 50.
C11_CategoryScoreFormulaAndStatus ==
    categoryScore # None =>
        /\ categoryScore.score = (IF CategoryDeducted > 0 THEN CategoryDeducted ELSE 0)
        /\ categoryScore.score \in 0..100
        /\ categoryScore.status \in {"Good", "Needs Attention", "Critical"}
        /\ (categoryScore.status = "Good") <=> (categoryScore.score >= 80)
        /\ (categoryScore.status = "Needs Attention")
              <=> (categoryScore.score >= 50 /\ categoryScore.score < 80)
        /\ (categoryScore.status = "Critical") <=> (categoryScore.score < 50)

\* A list whose deductions exceed 100 was scored: the clamp at 0 applied.
C11_Witness ==
    /\ categoryScore # None
    /\ CategoryDeducted < 0
    /\ categoryScore.score = 0
    /\ NumberOf("High") > 0
    /\ NumberOf("Low") > 0

(***************************************************************************)
(* ConfigAuditTools.isSimilarName on arbitrary normalized names            *)
(***************************************************************************)
MaxNameLen == 6

\* Normalized names: the strings over two letters up to a length.
RECURSIVE NamesUpTo(_)
NamesUpTo(n) ==
    IF n = 0 THEN {""}
    ELSE LET shorter == NamesUpTo(n - 1)
         IN shorter \cup {x \o c : x \in shorter, c \in {"a", "b"}}

InitSimilar ==
    /\ nameA \in NamesUpTo(MaxNameLen)
    /\ nameB \in NamesUpTo(MaxNameLen)
    /\ similarResult = NotCompared
    /\ IdleScore
    /\ IdleSnapshot
    /\ IdleServer
    /\ IdleRecon
    /\ IdleGst
    /\ IdleAging
    /\ IdleAudit
    /\ IdleFix

\* isSimilarName applied to the two names in both orders, and to the first
\* name and itself.
IsSimilarNameCall ==
    /\ ~similarResult.called
    /\ similarResult' = [called |-> TRUE,
                         forward |-> isSimilarName(nameA, nameB),
                         backward |-> isSimilarName(nameB, nameA),
                         self |-> isSimilarName(nameA, nameA)]
    /\ UNCHANGED <<nameA, nameB, scoreVars, snapshotVars, serverVars, reconVars, gstVars,
                   agingVars, auditVars, fixVars>>

NextSimilar == IsSimilarNameCall

SpecSimilar == InitSimilar /\ [][NextSimilar]_vars

\* C18: isSimilarName returns a boolean for every pair of names, the same
\* for (a, b) as for (b, a), and false for (a, a).
C18_SimilarSymmetricIrreflexive ==
    similarResult.called =>
        /\ similarResult.forward \in BOOLEAN
        /\ similarResult.backward \in BOOLEAN
        /\ similarResult.forward = similarResult.backward
        /\ ~similarResult.self

\* Two names that differ in one of six letters were found similar by their
\* edit distance.
C18_Witness ==
    /\ similarResult.called
    /\ similarResult.forward
    /\ Len(nameA) = 6
    /\ Len(nameB) = 6

(***************************************************************************)
(* runFullAudit while the ledgers of the external system change            *)
(***************************************************************************)
MaxChanges == 1

\* The categories whose audit fetches the ledgers (getLedgers), each with a
\* request of its own.
LedgerCategories == {"gst", "tds", "ledgerClassification", "partyMaster"}

\* Changes another client makes to the ledgers, in the form of the requests
\* executeFixAction sends.
ExternalChanges ==
    {[type |-> "rename_ledger", targetName |-> "Acme Traders",
      changes |-> [newName |-> "Acme Traders Pvt Ltd"]],
     [type |-> "regroup_ledger", targetName |-> "Salary",
      changes |-> [parent |-> "Indirect Expenses"]],
     [type |-> "create_ledger", targetName |-> "Output IGST",
      changes |-> [parent |-> "Duties & Taxes"]]}

SnapshotMasters ==
    {[ledgers |-> LedgerSets[i], companies |-> CompanySets[1], stockItems |-> StockSets[2]] :
        i \in {3, 5}}

InitSnapshot ==
    /\ tally \in SnapshotMasters
    /\ companyName = "Demo Co"
    /\ avail \in {[c \in Categories |-> TRUE], [c \in Categories |-> c # "stockItems"]}
    /\ phase = "idle"
    /\ promises = NoSlots
    /\ pending = {}
    /\ slots = NoSlots
    /\ auditDate = ""
    /\ report = None
    /\ previousReport = None
    /\ runs = 0
    /\ ledgerStates = <<>>
    /\ IdleScore
    /\ IdleSimilar
    /\ IdleServer
    /\ IdleRecon
    /\ IdleGst
    /\ IdleAging
    /\ IdleFix

SnapshotFrame ==
    UNCHANGED <<companyName, avail, promises, previousReport,
                reconVars, gstVars, agingVars, fixVars, scoreVars, similarVars, serverVars>>

\* runFullAudit up to `await Promise.all([...])`: the six audits are started
\* and each has sent its own request.
AuditStarts ==
    /\ phase = "idle"
    /\ runs = 0
    /\ runs' = 1
    /\ phase' = "awaiting"
    /\ pending' = Categories
    /\ slots' = NoSlots
    /\ ledgerStates' = <<tally.ledgers>>
    /\ UNCHANGED <<tally, auditDate, report>>
    /\ SnapshotFrame

\* The external system answers the request of category c from its masters
\* as they are at that moment, and the audit of c resolves with its issues.
RequestServed(c) ==
    /\ phase = "awaiting"
    /\ c \in pending
    /\ slots' = Resolve(slots, pending, c, CategoryAudit(c, tally, companyName, avail[c]))
    /\ pending' = pending \ {c}
    /\ UNCHANGED <<tally, phase, auditDate, report, runs, ledgerStates>>
    /\ SnapshotFrame

\* Another client changes a ledger while the audit is in progress.
LedgersChange ==
    /\ phase = "awaiting"
    /\ Len(ledgerStates) <= MaxChanges
    /\ \E change \in ExternalChanges :
          /\ AcceptedBy(tally, change) # tally
          /\ tally' = AcceptedBy(tally, change)
    /\ ledgerStates' = Append(ledgerStates, tally'.ledgers)
    /\ UNCHANGED <<phase, pending, slots, auditDate, report, runs>>
    /\ SnapshotFrame

\* runFullAudit after Promise.all has resolved.
AuditReturns ==
    /\ phase = "awaiting"
    /\ pending = {}
    /\ auditDate' = "2024-03-31"
    /\ report' = AuditReport(companyName, auditDate', slots)
    /\ phase' = "returned"
    /\ UNCHANGED <<tally, pending, slots, runs, ledgerStates>>
    /\ SnapshotFrame

NextSnapshot ==
    \/ AuditStarts
    \/ \E c \in Categories : RequestServed(c)
    \/ LedgersChange
    \/ AuditReturns

SpecSnapshot == InitSnapshot /\ [][NextSnapshot]_vars

\* The result of category c is the one its audit gives on the ledgers.
ReflectsLedgers(c, ledgers) ==
    slots[c] = CategoryAudit(c, [tally EXCEPT !.ledgers = ledgers], companyName, avail[c])

\* C19: the GST, TDS, ledger-classification and party-master results of one
\* runFullAudit all reflect one and the same state of the ledgers, also
\* when the ledgers change while the audit is in progress.
C19_OneLedgerSnapshotPerAudit ==
    (phase = "returned" /\ report.success) =>
        \E k \in 1..Len(ledgerStates) :
            \A c \in LedgerCategories : ReflectsLedgers(c, ledgerStates[k])

(***************************************************************************)
(* The server's CallTool handler and its connection guard                  *)
(***************************************************************************)
MaxToolCalls == 3

\* Tools whose case starts with ensureConnection().
GuardedTools ==
    {"tally_test_connection", "tally_get_companies", "config_audit_full",
     "config_apply_fix", "bank_auto_reconcile"}

\* Tools whose case calls tdsTools without ensureConnection().
UnguardedTdsTools == {"tds_rates", "tds_calculate"}

ToolNames == {"tally_connect"} \cup GuardedTools \cup UnguardedTdsTools \cup {"no_such_tool"}

Hosts == {"localhost", "10.0.0.5"}

\* The handler's normal return: the result as JSON text.
Returned(result) == [isError |-> FALSE, result |-> result]

\* The handler's catch block: { success: false, error: error.message }, isError: true.
Caught(message) == [isError |-> TRUE, result |-> [success |-> FALSE, error |-> message]]

\* function ensureConnection(): TRUE when it returns, FALSE when it throws.
ensureConnection(connection) == connection # Undefined

\* Faulty variant: a method call on an unassigned tools object gives its result.
Invoke_OnUndefined(toolsObject, result) == Returned(result)

\* A method call on a tools object: a TypeError, caught by the handler,
\* when the object was never assigned.
Invoke(toolsObject, result) ==
    IF toolsObject = Undefined
    THEN Caught("Cannot read properties of undefined")
    ELSE Returned(result)

\* The CallTool handler for one request: the module variables afterwards,
\* the response, what the guard did and the requests sent to Tally.
HandleCall(name, host, tallyOk, connection, tds) ==
    LET unchanged(guard, response, sent) ==
            [tallyConnection |-> connection, tdsTools |-> tds, guard |-> guard,
             response |-> response, sent |-> sent]
    IN CASE name = "tally_connect" ->
              [tallyConnection |-> [defined |-> TRUE, host |-> host, port |-> 9000],
               tdsTools |-> [defined |-> TRUE, connection |-> host],
               guard |-> "none",
               response |-> Returned([success |-> TRUE, message |-> "Connected to Tally."]),
               sent |-> 0]
         [] name \in GuardedTools ->
              IF ensureConnection(connection)
              THEN unchanged("passed", Returned(executeRequest(tallyOk)), 1)
              ELSE unchanged("rejected",
                             Caught("Not connected to Tally. Please call tally_connect first."),
                             0)
         [] name \in UnguardedTdsTools ->
              unchanged("none", Invoke(tds, [success |-> TRUE]), 0)
         [] OTHER -> unchanged("none", Caught("Unknown tool: " \o name), 0)

InitServer ==
    /\ tallyConnection = Undefined
    /\ tdsTools = Undefined
    /\ callLog = <<>>
    /\ IdleScore
    /\ IdleSimilar
    /\ IdleSnapshot
    /\ IdleRecon
    /\ IdleGst
    /\ IdleAging
    /\ IdleAudit
    /\ IdleFix

\* server.setRequestHandler(CallToolRequestSchema, ...) handling one call.
CallTool ==
    /\ Len(callLog) < MaxToolCalls
    /\ \E name \in ToolNames, host \in Hosts, tallyOk \in BOOLEAN :
          LET outcome == HandleCall(name, host, tallyOk, tallyConnection, tdsTools)
          IN /\ tallyConnection' = outcome.tallyConnection
             /\ tdsTools' = outcome.tdsTools
             /\ callLog' = Append(callLog, [name |-> name,
                                            guard |-> outcome.guard,
                                            response |-> outcome.response,
                                            sent |-> outcome.sent])
    /\ UNCHANGED <<scoreVars, similarVars, snapshotVars, reconVars, gstVars, agingVars,
                   auditVars, fixVars>>

NextServer == CallTool

SpecServer == InitServer /\ [][NextServer]_vars

\* tally_connect was called before the k-th call.
ConnectedBefore(k) == \E j \in 1..(k - 1) : callLog[j].name = "tally_connect"

\* C20: a call to any tool other than tally_connect made before the first
\* tally_connect returns an error response and sends no request to Tally;
\* once tally_connect has been called, the connection guard rejects no call.
C20_ConnectFirst ==
    \A k \in 1..Len(callLog) :
        /\ (callLog[k].name # "tally_connect" /\ ~ConnectedBefore(k)) =>
              /\ callLog[k].response.isError
              /\ ~callLog[k].response.result.success
              /\ callLog[k].sent = 0
        /\ ConnectedBefore(k) => callLog[k].guard # "rejected"

\* tds_rates was refused before tally_connect, and a guarded tool sent its
\* request after it.
C20_Witness ==
    /\ Len(callLog) = 3
    /\ callLog[1].name = "tds_rates"
    /\ callLog[1].response.isError
    /\ callLog[2].name = "tally_connect"
    /\ callLog[3].name = "config_audit_full"
    /\ callLog[3].guard = "passed"
    /\ callLog[3].sent = 1

====
